---- MODULE Spec2Model ----
(***************************************************************************)
(* Turn/phase state machine, log-spawn scheduler, AABB collision and       *)
(* win/loss resolution of the game in src/src/main.rs and                  *)
(* src/src/collision_system.rs.                                            *)
(*                                                                         *)
(* One step of the model is one frame of the engine: the Update schedule   *)
(* of the current states, then the event-buffer swap (First) and the       *)
(* StateTransition schedule of the next frame, so every state shows the    *)
(* phase whose Update systems run next.                                    *)
(*                                                                         *)
(* Real coordinates are fixed point: TILE_SIZE units are 1.0.  A countdown *)
(* is its elapsed share of its duration, in TimerSteps-ths.  An f32 keeps  *)
(* 24 significant bits: the sums and differences of LLAabb3d are rounded   *)
(* to them, to nearest and ties to even.  Systems with                     *)
(* no ordering constraint between them run in an order chosen per frame.   *)
(***************************************************************************)
EXTENDS Integers, Sequences, FiniteSets, TLC

VARIABLES
    app_state,              \* State<AppState>
    game_state,             \* State<GameState>, "None" while the sub-state does not exist
    next_app_state,         \* NextState<AppState>: "Unchanged" or the pending state
    next_game_state,        \* NextState<GameState>
    prev_state,             \* PrevState(Option<GameState>): <<>> or <<s>>
    is_moving,              \* PlayerActionTracker.is_moving
    is_jumping,             \* PlayerActionTracker.is_jumping
    skip_player_action,     \* DebugSkipPlayerAction.skip_player_action
    skip_player_collision,  \* DebugSkipPlayerAction.skip_player_collision
    action_timer,           \* ActionTimer: elapsed share, 0..TimerSteps
    current_step,           \* Game.current_step
    bevy_count,             \* Game.bevy_count
    bird_map,               \* keys of Level.bird_map
    player_pos,             \* Game.player_pos
    sequence_index,         \* LogSequence.sequence_index of each sequence
    player,                 \* the Player entity: <<>> or <<its components>>
    logs,                   \* the Log entities in spawn order
    events_old,             \* unread CollisionEvents written one frame ago
    events_new,             \* unread CollisionEvents written this frame
    spawn_history,          \* history: the spawn passes of the session
    last_action,            \* history: the action last chosen in PlayerIdle
    paused_from,            \* history: the phase Paused was last entered from
    cycle_start,            \* history: the turn counter when the running turn began
    action_start,           \* history: the player's position when the last action was accepted
    log_age,                \* history: the game turns each hazard has been through, in the order of logs
    turn_start,             \* history: the hazards' positions when the last game turn began
    sessions,               \* history: the number of entries into InGame
    script,                 \* the inputs of the scripted frames still to come
    turns_left,             \* budget: actions still accepted in PlayerIdle
    pauses_left,            \* budget: pause toggles still accepted
    debug_left,             \* budget: debug-flag toggles still accepted
    legacy,                 \* the step loop of game_logic.rs, logs.rs and player.rs: its Game, entities and events
    call,                   \* a call of a function on its own: the function and its arguments
    result                  \* what the call returned: <<>> or <<the value>>

vars == <<app_state, game_state, next_app_state, next_game_state, prev_state,
          is_moving, is_jumping, skip_player_action, skip_player_collision,
          action_timer, current_step, bevy_count, bird_map, player_pos,
          sequence_index, player, logs, events_old, events_new,
          spawn_history, last_action, paused_from, cycle_start, turn_start,
      action_start, log_age, sessions,
          script, turns_left, pauses_left, debug_left, legacy, call, result>>

---------------------------------------------------------------------------
(* Bounds of the model *)

MaxTurns == 1
MaxPauses == 2
MaxDebug == 1
MaxInputs == 3
MaxBoard == 3
MaxStep == 16
MaxCoord == 1
MaxCorner == 1
MaxObjects == 3
TimerSteps == 20

(* Program constants *)

TILE_SIZE == 32000
TILE_HALF_SIZE == 16000
SEQUENCE_LENGTH == 8
BIRD_Y == 2
LOG1_OFFSET_X == 2
LOG2_OFFSET_X == 6
LOG3_OFFSET_X == 10
DIST == 1
BoardSizeX == 12
BoardSizeY == 12

---------------------------------------------------------------------------
(* Values *)

None == <<>>
Some(x) == <<x>>
IsSome(o) == o # <<>>
Unwrap(o) == o[1]

Min(a, b) == IF a <= b THEN a ELSE b
Abs(a) == IF a < 0 THEN -a ELSE a

Vec3(x, y, z) == <<x, y, z>>
VAdd(a, b) == <<a[1] + b[1], a[2] + b[2], a[3] + b[3]>>
VSub(a, b) == <<a[1] - b[1], a[2] - b[2], a[3] - b[3]>>
VAbs(a) == <<Abs(a[1]), Abs(a[2]), Abs(a[3])>>
\* Vec3 / 2.0 (exact on the even values the model holds)
VHalf(a) == <<a[1] \div 2, a[2] \div 2, a[3] \div 2>>

\* f32 -> i32 (`as i32`, Vec3::as_ivec3): truncation toward zero
TruncToInt(v) == IF v >= 0 THEN v \div TILE_SIZE ELSE -((-v) \div TILE_SIZE)
AsIVec3(v) == <<TruncToInt(v[1]), TruncToInt(v[2]), TruncToInt(v[3])>>
\* IVec3 -> Vec3
AsVec3(p) == <<p[1] * TILE_SIZE, p[2] * TILE_SIZE, p[3] * TILE_SIZE>>

AppStates == {"AssetLoading", "InGame", "EndGame", "WinGame"}
TurnPhases == {"PlayerIdle", "PlayerActionInProgress", "GameTurnInProgress",
               "PlayerFinishingJump"}
GameStates == TurnPhases \cup {"Paused"}
Directions == {"None", "North", "East", "South", "West"}

DirectionValue(d) ==
    CASE d = "North" -> <<0, 0, DIST>>
      [] d = "East"  -> <<DIST, 0, 0>>
      [] d = "South" -> <<0, 0, -DIST>>
      [] d = "West"  -> <<-DIST, 0, 0>>
      [] OTHER       -> <<0, 0, 0>>

---------------------------------------------------------------------------
(* Game::default: the level *)

DefaultSeq ==
    << [log_sequence_nth_step |-> <<1, 0, 1, 1, 1, 0, 0, 0>>,
        spawn_offset_z        |-> <<0, 1, 0, 0, 0, 0, 0, 0>>,
        spawn_offset_x        |-> <<0, 1, 0, 0, 1, 0, 0, 0>>,
        spawn_offset_x_base   |-> LOG1_OFFSET_X],
       [log_sequence_nth_step |-> <<0, 1, 1, 0, 1, 0, 0, 0>>,
        spawn_offset_z        |-> <<0, 0, 0, 0, 0, 0, 0, 0>>,
        spawn_offset_x        |-> <<0, 1, 0, 0, 1, 0, 0, 0>>,
        spawn_offset_x_base   |-> LOG2_OFFSET_X],
       [log_sequence_nth_step |-> <<1, 0, 1, 1, 0, 1, 0, 1>>,
        spawn_offset_z        |-> <<0, 0, 1, 0, 0, 0, 0, 0>>,
        spawn_offset_x        |-> <<0, 0, 0, 0, 0, 0, 0, 0>>,
        spawn_offset_x_base   |-> LOG3_OFFSET_X] >>

DefaultBirdMap == {<<7, BIRD_Y, 2>>, <<8, BIRD_Y, 7>>, <<3, BIRD_Y, 5>>}
DefaultPlayerPos == <<3, 0, 0>>
DefaultSequenceIndex == <<0, 0, 0>>

\* an index that wraps one entry before the table's end
seq_idx_short(step) == step % (SEQUENCE_LENGTH - 1)

\* LogSequence::seq_idx
seq_idx(step) == step % SEQUENCE_LENGTH

\* LogSequence::check_seq on the table log_sequence_nth_step: Some(the
\* boolean it returns), or None where `%` panics on a zero divisor
check_seq(table, step, mod_val) ==
    LET idx == seq_idx(step)
    IN  IF table[idx + 1] = 0
        THEN None
        ELSE Some(step % table[idx + 1] = mod_val)

\* a u32 as <<its high 16 bits, its low 16 bits>>
U32Of(n) == <<n \div 65536, n % 65536>>

\* `u as i32`: the same 32 bits read as two's complement
as_i32(u) == IF u[1] < 32768 THEN u[1] * 65536 + u[2] ELSE (u[1] - 65536) * 65536 + u[2]

\* the fields of Game the board tests read
DefaultGame ==
    [board_size_x |-> U32Of(BoardSizeX), board_size_y |-> U32Of(BoardSizeY),
     player_pos |-> DefaultPlayerPos]

\* a player-move test that accepts the closed range
is_valid_player_move_closed(game, dir) ==
    LET pos == VAdd(game.player_pos, DirectionValue(dir))
    IN  /\ pos[1] >= 0 /\ pos[1] <= as_i32(game.board_size_x)
        /\ pos[3] >= 0 /\ pos[3] <= as_i32(game.board_size_y)

\* Game::is_valid_player_move
is_valid_player_move(game, dir) ==
    LET pos == VAdd(game.player_pos, DirectionValue(dir))
    IN  /\ pos[1] >= 0 /\ pos[1] < as_i32(game.board_size_x)
        /\ pos[3] >= 0 /\ pos[3] < as_i32(game.board_size_y)

\* a board test that accepts the half-open range
is_valid_board_pos_half_open(game, pos, dir) ==
    LET p == VAdd(pos, DirectionValue(dir))
    IN  /\ p[1] > -1 /\ p[1] < as_i32(game.board_size_x)
        /\ p[3] > -1 /\ p[3] < as_i32(game.board_size_y)

\* Game::is_valid_board_pos
is_valid_board_pos(game, pos, dir) ==
    LET p == VAdd(pos, DirectionValue(dir))
    IN  /\ p[1] > -1 /\ p[1] <= as_i32(game.board_size_x)
        /\ p[3] > -1 /\ p[3] <= as_i32(game.board_size_y)

---------------------------------------------------------------------------
(* LLAabb3d *)

RECURSIVE Ulp(_, _)
\* the spacing of the f32 values around the magnitude a: the least power of
\* two q, from q on, with a < 2^24 * q
Ulp(a, q) == IF a < 16777216 * q THEN q ELSE Ulp(a, 2 * q)

\* a magnitude of k spacings q and half of twice_rem: to the nearest spacing,
\* ties to the even significand
NearestEven(k, twice_rem, q) ==
    IF twice_rem > q \/ (twice_rem = q /\ k % 2 = 1) THEN (k + 1) * q ELSE k * q

Nearest(a, q) == NearestEven(a \div q, 2 * (a % q), q)

\* the f32 nearest to a magnitude a of more than 24 bits
RoundToF32(a) == Nearest(a, Ulp(a, 1))

\* an integer of at most 24 bits is an f32 value
Exact(n) == -16777216 < n /\ n < 16777216

\* the f32 nearest to n
f32(n) ==
    IF Exact(n) THEN n ELSE (IF n < 0 THEN -1 ELSE 1) * RoundToF32(Abs(n))

\* a Vec3 of f32 components
F32Vec(v) ==
    IF Exact(v[1]) /\ Exact(v[2]) /\ Exact(v[3]) THEN v
    ELSE Vec3(f32(v[1]), f32(v[2]), f32(v[3]))

\* Vec3 + Vec3 and Vec3 - Vec3 of f32 components
F32Add(a, b) == F32Vec(VAdd(a, b))
F32Sub(a, b) == F32Vec(VSub(a, b))

\* a constructor that keeps the signs of the half-extents
LLAabb3d_new_signed(center, half_extents) ==
    [min |-> F32Sub(center, half_extents), max |-> F32Add(center, half_extents)]

LLAabb3d_new(center, half_extents) ==
    LET positive_half_extents == VAbs(half_extents)
    IN  [min |-> F32Sub(center, positive_half_extents),
         max |-> F32Add(center, positive_half_extents)]

\* an overlap test of the open boxes: touching boxes do not meet
intersects_open(a, b) ==
    LET x_overlap == a.min[1] < b.max[1] /\ a.max[1] > b.min[1]
        y_overlap == a.min[2] < b.max[2] /\ a.max[2] > b.min[2]
        z_overlap == a.min[3] < b.max[3] /\ a.max[3] > b.min[3]
    IN  x_overlap /\ y_overlap /\ z_overlap

\* an overlap test that is strict on one side of the x axis
intersects_strict(a, b) ==
    LET x_overlap == a.min[1] < b.max[1] /\ a.max[1] >= b.min[1]
        y_overlap == a.min[2] <= b.max[2] /\ a.max[2] >= b.min[2]
        z_overlap == a.min[3] <= b.max[3] /\ a.max[3] >= b.min[3]
    IN  x_overlap /\ y_overlap /\ z_overlap

intersects(a, b) ==
    LET x_overlap == a.min[1] <= b.max[1] /\ a.max[1] >= b.min[1]
        y_overlap == a.min[2] <= b.max[2] /\ a.max[2] >= b.min[2]
        z_overlap == a.min[3] <= b.max[3] /\ a.max[3] >= b.min[3]
    IN  x_overlap /\ y_overlap /\ z_overlap

center(a) == VHalf(F32Add(a.min, a.max))
extents(a) == F32Sub(a.max, a.min)
half_extents(a) == VHalf(F32Sub(a.max, a.min))

\* a move that puts the two corners on the wrong sides of the centre
update_center_flip(a, new_center) ==
    LET h == half_extents(a)
    IN  [min |-> F32Add(new_center, h), max |-> F32Sub(new_center, h)]

\* a move that measures the half-extents from the old centre to the new one
update_center_stretch(a, new_center) ==
    LET h == VAbs(VSub(new_center, a.min))
    IN  [min |-> F32Sub(new_center, h), max |-> F32Add(new_center, h)]

update_center(a, new_center) ==
    LET h == half_extents(a)
    IN  [min |-> F32Sub(new_center, h), max |-> F32Add(new_center, h)]

---------------------------------------------------------------------------
(* Timer (TimerMode::Once) and the easing curves *)

\* the frame times: half a countdown (rounded up) and a whole one
Deltas == {(TimerSteps + 1) \div 2, TimerSteps}

\* Timer::tick: a finished Once timer stays as it is
TimerTick(t, dt) == Min(t + dt, TimerSteps)
\* Timer::just_finished after tick(dt)
TimerJustFinished(t, dt) == t < TimerSteps /\ t + dt >= TimerSteps
\* Timer::finished
TimerFinished(t) == t >= TimerSteps

\* start.lerp(target, s), s in TILE_SIZE units
Lerp1(a, b, s) == a + ((b - a) * s) \div TILE_SIZE
Lerp(a, b, s) == <<Lerp1(a[1], b[1], s), Lerp1(a[2], b[2], s), Lerp1(a[3], b[3], s)>>
\* start.lerp(target, timer.fraction())
LerpFraction(a, b, k) ==
    <<a[1] + ((b[1] - a[1]) * k) \div TimerSteps,
      a[2] + ((b[2] - a[2]) * k) \div TimerSteps,
      a[3] + ((b[3] - a[3]) * k) \div TimerSteps>>

\* ease_in_out_cubic(k / TimerSteps), in TILE_SIZE units
ease_in_out_cubic(k) ==
    IF 2 * k < TimerSteps
    THEN (4 * k * k * k * TILE_SIZE) \div (TimerSteps * TimerSteps * TimerSteps)
    ELSE TILE_SIZE -
         (((2 * TimerSteps - 2 * k) * (2 * TimerSteps - 2 * k) * (2 * TimerSteps - 2 * k))
            * TILE_SIZE) \div (2 * TimerSteps * TimerSteps * TimerSteps)

\* easeoutbounce(k / TimerSteps).abs(), in TILE_SIZE units (n1 = 121/16, d1 = 11/4)
easeoutbounce(k) ==
    LET P2 == TimerSteps * TimerSteps
    IN  IF 11 * k < 4 * TimerSteps
        THEN (121 * k * k * (TILE_SIZE \div 16)) \div P2
        ELSE IF 11 * k < 8 * TimerSteps
        THEN ((11 * k - 6 * TimerSteps) * (11 * k - 6 * TimerSteps) * (TILE_SIZE \div 16))
                \div P2 + (3 * TILE_SIZE) \div 4
        ELSE IF 11 * k < 10 * TimerSteps
        THEN Abs(((11 * k - 9 * TimerSteps) * (11 * k - 9 * TimerSteps) * (TILE_SIZE \div 16))
                \div P2 - (15 * TILE_SIZE) \div 16)
        ELSE ((22 * k - 21 * TimerSteps) * (22 * k - 21 * TimerSteps) * (TILE_SIZE \div 64))
                \div P2 + (63 * TILE_SIZE) \div 64

\* 0.2 * sin(eased * PI); the sine by Bhaskara's rational form
\* sin(PI x) ~ 16 x (1 - x) / (5 - 4 x (1 - x)), exact at 0, 1/2 and 1
jump_arc(eased) ==
    LET q == (eased * (TILE_SIZE - eased)) \div TILE_SIZE
    IN  (16 * q * (TILE_SIZE \div 5)) \div (5 * TILE_SIZE - 4 * q)

---------------------------------------------------------------------------
(* The world the systems act on: one record, a field per variable *)

World ==
    [app_state |-> app_state, game_state |-> game_state,
     next_app_state |-> next_app_state, next_game_state |-> next_game_state,
     prev_state |-> prev_state, is_moving |-> is_moving, is_jumping |-> is_jumping,
     skip_player_action |-> skip_player_action,
     skip_player_collision |-> skip_player_collision,
     action_timer |-> action_timer, current_step |-> current_step,
     bevy_count |-> bevy_count, bird_map |-> bird_map, player_pos |-> player_pos,
     sequence_index |-> sequence_index, player |-> player, logs |-> logs,
     events_old |-> events_old, events_new |-> events_new,
     spawn_history |-> spawn_history]

HasPlayer(w) == IsSome(w.player)
ThePlayer(w) == Unwrap(w.player)
HasPlayerMove(w) == HasPlayer(w) /\ IsSome(ThePlayer(w).player_move)
SetPlayer(w, p) == [w EXCEPT !.player = Some(p)]

\* *game = Game::default()
GameDefault(w) ==
    [w EXCEPT !.current_step = 0, !.bevy_count = 0, !.bird_map = DefaultBirdMap,
              !.player_pos = DefaultPlayerPos, !.sequence_index = DefaultSequenceIndex]

---------------------------------------------------------------------------
(* Systems of main.rs, in source order *)

setup_game_environment(w) ==
    LET p == [translation |-> Vec3(6 * TILE_SIZE, TILE_HALF_SIZE, 0),
              aabb |-> LLAabb3d_new(Vec3(2 * TILE_SIZE, TILE_HALF_SIZE, 0),
                                    Vec3(TILE_HALF_SIZE \div 2,
                                         (TILE_HALF_SIZE * 11) \div 10,
                                         TILE_HALF_SIZE \div 2)),
              player_move |-> None, player_end |-> None, player_win |-> None]
    IN  [w EXCEPT !.player = Some(p), !.next_game_state = "PlayerIdle"]

\* the Log entity spawn_logs creates for sequence i on a trigger at index idx
SpawnedLog(i, idx) ==
    LET seq == DefaultSeq[i]
        get_spawn_offset_x == seq.spawn_offset_x_base + seq.spawn_offset_x[idx + 1]
        get_spawn_offset_z == seq.spawn_offset_z[idx + 1]
        log_center == Vec3(get_spawn_offset_x * TILE_SIZE - TILE_HALF_SIZE,
                           TILE_HALF_SIZE \div 2,
                           (BoardSizeY - get_spawn_offset_z) * TILE_SIZE)
    IN  [translation |-> log_center,
         aabb |-> LLAabb3d_new(log_center,
                               Vec3(TILE_SIZE * 2, TILE_HALF_SIZE \div 2, TILE_HALF_SIZE \div 2)),
         log_roll |-> None]

\* a trigger test that also accepts the table entry 0
SpawnTriggeredOnZero(i, step) == DefaultSeq[i].log_sequence_nth_step[seq_idx(step) + 1] >= 0

\* spawn_logs' trigger test for sequence i
SpawnTriggered(i, step) == DefaultSeq[i].log_sequence_nth_step[seq_idx(step) + 1] > 0

RECURSIVE SpawnFrom(_, _, _, _)
\* the loop of spawn_logs from sequence i on: <<sequence_index, spawned logs>>
SpawnFrom(i, step, index, spawned) ==
    IF i > Len(DefaultSeq) THEN <<index, spawned>>
    ELSE IF SpawnTriggered(i, step)
         THEN SpawnFrom(i + 1, step, [index EXCEPT ![i] = seq_idx(step)],
                        Append(spawned, SpawnedLog(i, seq_idx(step))))
         ELSE SpawnFrom(i + 1, step, index, spawned)

spawn_logs(w) ==
    LET r == SpawnFrom(1, w.current_step, w.sequence_index, <<>>)
    IN  [w EXCEPT !.sequence_index = r[1],
                  !.logs = w.logs \o r[2],
                  !.spawn_history = Append(@, [step |-> w.current_step,
                                               index_before |-> w.sequence_index,
                                               index_after |-> r[1],
                                               spawned |-> r[2]])]

advance_game_turn(w) == [w EXCEPT !.current_step = @ + 1]

\* an end handler that despawns the player and requests no new session
player_end_handling_no_return(w, dt) ==
    IF HasPlayer(w) /\ IsSome(ThePlayer(w).player_end)
    THEN LET p == ThePlayer(w)
             t == TimerTick(Unwrap(p.player_end), dt)
         IN  IF TimerFinished(t)
             THEN [w EXCEPT !.player = None]
             ELSE SetPlayer(w, [p EXCEPT !.player_end = Some(t)])
    ELSE w

player_end_handling_system(w, dt) ==
    IF HasPlayer(w) /\ IsSome(ThePlayer(w).player_end)
    THEN LET p == ThePlayer(w)
             t == TimerTick(Unwrap(p.player_end), dt)
             \* SPEED * elapsed seconds = 4.5 * 1.6 * t / TimerSteps
             fall == (72 * TILE_SIZE * t) \div (10 * TimerSteps)
             moved == [p EXCEPT !.player_end = Some(t),
                                !.translation = <<@[1], @[2] + fall \div 2, @[3] - fall>>]
         IN  IF TimerFinished(t)
             THEN [w EXCEPT !.player = None, !.next_app_state = "InGame"]
             ELSE SetPlayer(w, moved)
    ELSE w

player_wins_trigger(w) ==
    IF HasPlayer(w)
    THEN LET p == ThePlayer(w)
         IN  [SetPlayer(w, [p EXCEPT !.player_win = IF IsSome(@) THEN @ ELSE Some(0)])
                 EXCEPT !.next_app_state = "WinGame"]
    ELSE w

update_win_timer(w, dt) ==
    IF HasPlayer(w) /\ IsSome(ThePlayer(w).player_win)
    THEN LET p == ThePlayer(w)
             t == TimerTick(Unwrap(p.player_win), dt)
             w1 == SetPlayer(w, [p EXCEPT !.player_win = Some(t)])
         IN  IF TimerFinished(t)
             THEN [GameDefault(w1) EXCEPT !.next_app_state = "InGame"]
             ELSE w1
    ELSE w

\* a cleanup that despawns no log
cleanup_game_keeps_logs(w) ==
    [GameDefault(w) EXCEPT !.player = None, !.spawn_history = <<>>]

cleanup_game(w) ==
    [GameDefault(w) EXCEPT !.player = None, !.logs = <<>>, !.spawn_history = <<>>]

update_aabb_system(w) ==
    LET w1 == IF HasPlayer(w)
              THEN SetPlayer(w, [ThePlayer(w) EXCEPT
                                   !.aabb = update_center(@, ThePlayer(w).translation)])
              ELSE w
    IN  [w1 EXCEPT !.logs = [i \in DOMAIN w.logs |->
                               [w.logs[i] EXCEPT !.aabb = update_center(@, w.logs[i].translation)]]]

\* the key pressed this frame, by the priority of the else-if chain
Keys == {"None", "KeyW", "KeyD", "KeyS", "KeyA", "KeyJ"}

KeyDirection(key) ==
    CASE key = "KeyW" -> "North"
      [] key = "KeyD" -> "West"
      [] key = "KeyS" -> "South"
      [] key = "KeyA" -> "East"
      [] OTHER        -> "None"

handle_player_input(w, key) ==
    LET moving == key \in {"KeyW", "KeyD", "KeyS", "KeyA"}
        jump == key = "KeyJ"
        w1 == [w EXCEPT !.is_moving = IF moving THEN KeyDirection(key) ELSE @,
                        !.is_jumping = IF moving THEN FALSE ELSE IF jump THEN TRUE ELSE @]
    IN  IF moving \/ jump \/ w.skip_player_action
        THEN [w1 EXCEPT !.next_game_state = "PlayerActionInProgress"]
        ELSE w1

setup_player_action_timer(w) ==
    LET w1 == [w EXCEPT !.action_timer = 0]
    IN  IF HasPlayer(w)
        THEN LET p == ThePlayer(w)
                 start_position == p.translation
                 target_position ==
                     IF w.is_jumping
                     THEN <<start_position[1], start_position[2] + TILE_SIZE, start_position[3]>>
                     ELSE VAdd(start_position, AsVec3(DirectionValue(w.is_moving)))
             IN  SetPlayer(w1, [p EXCEPT !.player_move =
                                   Some([start_position |-> start_position,
                                         target_position |-> target_position])])
        ELSE w1

process_player_action(w, dt) ==
    LET t == TimerTick(w.action_timer, dt)
        w1 == [w EXCEPT !.action_timer = t]
    IN  IF HasPlayerMove(w)
        THEN LET p == ThePlayer(w)
                 pm == Unwrap(p.player_move)
                 eased_progress == ease_in_out_cubic(t)
                 at == Lerp(pm.start_position, pm.target_position, eased_progress)
                 arced == IF w.is_jumping
                          THEN <<at[1], at[2] + jump_arc(eased_progress), at[3]>>
                          ELSE at
             IN  IF TimerJustFinished(w.action_timer, dt)
                 THEN [SetPlayer(w1, [p EXCEPT !.translation = pm.target_position,
                                               !.player_move = None])
                          EXCEPT !.next_game_state = "GameTurnInProgress"]
                 ELSE SetPlayer(w1, [p EXCEPT !.translation = arced])
        ELSE w1

update_player_pos_after_jump(w) ==
    IF HasPlayerMove(w)
    THEN [w EXCEPT !.player_pos = AsIVec3(Unwrap(ThePlayer(w).player_move).target_position)]
    ELSE w

\* a game-turn setup that tags the logs and leaves the countdown as it is
setup_game_turn_timer_no_reset(w) ==
    [w EXCEPT !.logs = [i \in DOMAIN w.logs |->
                          [w.logs[i] EXCEPT !.log_roll =
                              Some([start_position |-> w.logs[i].translation,
                                    target_position |->
                                        <<w.logs[i].translation[1], w.logs[i].translation[2],
                                          w.logs[i].translation[3] - TILE_SIZE * 2>>])]]]

\* a game-turn setup that rolls the logs one tile a turn
setup_game_turn_timer_one_tile(w) ==
    [w EXCEPT !.action_timer = 0,
              !.logs = [i \in DOMAIN w.logs |->
                          [w.logs[i] EXCEPT !.log_roll =
                              Some([start_position |-> w.logs[i].translation,
                                    target_position |->
                                        <<w.logs[i].translation[1], w.logs[i].translation[2],
                                          w.logs[i].translation[3] - TILE_SIZE>>])]]]

setup_game_turn_timer(w) ==
    [w EXCEPT !.action_timer = 0,
              !.logs = [i \in DOMAIN w.logs |->
                          [w.logs[i] EXCEPT !.log_roll =
                              Some([start_position |-> w.logs[i].translation,
                                    target_position |->
                                        <<w.logs[i].translation[1], w.logs[i].translation[2],
                                          w.logs[i].translation[3] - TILE_SIZE * 2>>])]]]

\* a game turn that despawns a hazard off the board at any point of the countdown
LogOutOfBoundsAnyTime(k, translation) ==
    ~is_valid_board_pos(DefaultGame, AsIVec3(translation), "West")

\* process_game_turn's out-of-bounds test of a log at `translation`
LogOutOfBounds(k, translation) ==
    10 * k > 9 * TimerSteps /\ ~is_valid_board_pos(DefaultGame, AsIVec3(translation), "West")

\* a game turn that sends every action straight back to PlayerIdle
GameTurnNextNoLanding(w) == "PlayerIdle"

\* the phase process_game_turn requests when its timer has just finished
GameTurnNext(w) == IF w.is_jumping THEN "PlayerFinishingJump" ELSE "PlayerIdle"

process_game_turn(w, dt) ==
    LET t == TimerTick(w.action_timer, dt)
        finished == TimerJustFinished(w.action_timer, dt)
        Rolled(l) == LerpFraction(Unwrap(l.log_roll).start_position,
                                  Unwrap(l.log_roll).target_position, t)
        Despawned(l) == IsSome(l.log_roll) /\ LogOutOfBounds(t, Rolled(l))
        Moved(l) ==
            IF ~IsSome(l.log_roll) THEN l
            ELSE IF finished
                 THEN [l EXCEPT !.translation = Unwrap(l.log_roll).target_position,
                                !.log_roll = None]
                 ELSE [l EXCEPT !.translation = Rolled(l)]
        kept == SelectSeq(w.logs, LAMBDA l : ~Despawned(l))
    IN  [w EXCEPT !.action_timer = t,
                  !.logs = [i \in DOMAIN kept |-> Moved(kept[i])],
                  !.next_game_state =
                      IF finished THEN GameTurnNext(w) ELSE @]

increment_bevy(w) ==
    LET w1 == [w EXCEPT !.bevy_count = @ + 1]
    IN  IF w1.bird_map = {} THEN player_wins_trigger(w1) ELSE w1

\* a rescue check that reads the entry and leaves it on the map
player_check_for_bird_keeps_entry(w) ==
    IF w.is_jumping /\ HasPlayer(w)
    THEN LET at == AsIVec3(ThePlayer(w).translation)
             pos == <<at[1], BIRD_Y, at[3]>>
         IN  IF pos \in w.bird_map THEN increment_bevy(w) ELSE w
    ELSE w

\* a rescue check after every action, jump or not
player_check_for_bird_any_action(w) ==
    IF HasPlayer(w)
    THEN LET at == AsIVec3(ThePlayer(w).translation)
             pos == <<at[1], BIRD_Y, at[3]>>
         IN  IF pos \in w.bird_map
             THEN increment_bevy([w EXCEPT !.bird_map = @ \ {pos}])
             ELSE w
    ELSE w

\* a rescue check that looks the player's cell up at the player's own height
player_check_for_bird_unpinned(w) ==
    IF w.is_jumping /\ HasPlayer(w)
    THEN LET pos == AsIVec3(ThePlayer(w).translation)
         IN  IF pos \in w.bird_map
             THEN increment_bevy([w EXCEPT !.bird_map = @ \ {pos}])
             ELSE w
    ELSE w

player_check_for_bird(w) ==
    IF w.is_jumping /\ HasPlayer(w)
    THEN LET at == AsIVec3(ThePlayer(w).translation)
             pos == <<at[1], BIRD_Y, at[3]>>
         IN  IF pos \in w.bird_map
             THEN increment_bevy([w EXCEPT !.bird_map = @ \ {pos}])
             ELSE w
    ELSE w

setup_player_jump_land_timer(w) ==
    LET w1 == [w EXCEPT !.action_timer = 0]
    IN  IF HasPlayer(w)
        THEN LET p == ThePlayer(w)
                 start_position == p.translation
             IN  SetPlayer(w1, [p EXCEPT !.player_move =
                                   Some([start_position |-> start_position,
                                         target_position |->
                                             <<start_position[1], start_position[2] - TILE_SIZE,
                                               start_position[3]>>])])
        ELSE w1

process_player_finishing_jump(w, dt) ==
    LET t == TimerTick(w.action_timer, dt)
        w1 == [w EXCEPT !.action_timer = t]
    IN  IF HasPlayerMove(w)
        THEN LET p == ThePlayer(w)
                 pm == Unwrap(p.player_move)
                 at == Lerp(pm.start_position, pm.target_position, easeoutbounce(t))
             IN  IF TimerJustFinished(w.action_timer, dt)
                 THEN [SetPlayer(w1, [p EXCEPT !.translation = pm.target_position,
                                               !.player_move = None])
                          EXCEPT !.is_jumping = FALSE, !.next_game_state = "PlayerIdle"]
                 ELSE SetPlayer(w1, [p EXCEPT !.translation = at])
        ELSE w1

toggle_pause(w, space) ==
    IF space
    THEN IF w.game_state = "Paused"
         THEN IF IsSome(w.prev_state)
              THEN [w EXCEPT !.next_game_state = Unwrap(w.prev_state), !.prev_state = None]
              ELSE [w EXCEPT !.next_game_state = "PlayerIdle"]
         ELSE [w EXCEPT !.prev_state = Some(w.game_state), !.next_game_state = "Paused"]
    ELSE w

toggle_debug_skip_player_action(w, keyZ, keyX) ==
    [w EXCEPT !.skip_player_action = IF keyZ THEN ~@ ELSE @,
              !.skip_player_collision = IF keyX THEN ~@ ELSE @]

---------------------------------------------------------------------------
(* Systems of collision_system.rs *)

\* the entities carrying (GameObjectType, LLAabb3d)
GameObjects(w) ==
    (IF HasPlayer(w) THEN <<[got |-> "Player", aabb |-> ThePlayer(w).aabb]>> ELSE <<>>)
    \o [i \in DOMAIN w.logs |-> [got |-> "Log", aabb |-> w.logs[i].aabb]]

\* the pairs of n entities, each pair once
iter_combinations(n) == UNION {{<<i, j>> : j \in (i + 1)..n} : i \in 1..n}

\* a scan that does not compare the classifications of a pair
ScanEvents_any_pair(objs) ==
    LET hits == {c \in iter_combinations(Len(objs)) :
                    intersects(objs[c[1]].aabb, objs[c[2]].aabb)}
    IN  Cardinality({c \in hits : objs[c[1]].got = "Player"})
        + Cardinality({c \in hits : objs[c[2]].got = "Player"})

\* the CollisionEvents one scan writes
ScanEvents(objs) ==
    LET hits == {c \in iter_combinations(Len(objs)) :
                    /\ objs[c[1]].got # objs[c[2]].got
                    /\ intersects(objs[c[1]].aabb, objs[c[2]].aabb)}
    IN  Cardinality({c \in hits : objs[c[1]].got = "Player"})
        + Cardinality({c \in hits : objs[c[2]].got = "Player"})

collision_detection_system(w) ==
    [w EXCEPT !.events_new = @ + ScanEvents(GameObjects(w))]

\* a handler that tags the player and leaves the session in InGame
player_collision_handling_tag_only(w) ==
    IF w.skip_player_collision THEN w
    ELSE IF w.events_old + w.events_new = 0 THEN w
    ELSE IF HasPlayer(w)
         THEN LET p == ThePlayer(w)
              IN  [SetPlayer(w, [p EXCEPT !.player_end = IF IsSome(@) THEN @ ELSE Some(0)])
                      EXCEPT !.events_old = 0, !.events_new = 0]
         ELSE IF w.events_old > 0
              THEN [w EXCEPT !.events_old = @ - 1]
              ELSE [w EXCEPT !.events_new = @ - 1]

\* a handler that does not read the suppression flag
player_collision_handling_unsuppressed(w) ==
    IF w.events_old + w.events_new = 0 THEN w
    ELSE IF HasPlayer(w)
         THEN LET p == ThePlayer(w)
              IN  [SetPlayer(w, [p EXCEPT !.player_end = IF IsSome(@) THEN @ ELSE Some(0)])
                      EXCEPT !.next_app_state = "EndGame",
                             !.events_old = 0, !.events_new = 0]
         ELSE IF w.events_old > 0
              THEN [w EXCEPT !.events_old = @ - 1]
              ELSE [w EXCEPT !.events_new = @ - 1]

\* a collision handler that ends the game whether or not a player exists
player_collision_handling_unguarded(w) ==
    IF w.skip_player_collision THEN w
    ELSE IF w.events_old + w.events_new = 0 THEN w
    ELSE [w EXCEPT !.next_app_state = "EndGame", !.events_old = 0, !.events_new = 0]

player_collision_handling_system(w) ==
    IF w.skip_player_collision THEN w
    ELSE IF w.events_old + w.events_new = 0 THEN w
    ELSE IF HasPlayer(w)
         THEN LET p == ThePlayer(w)
              IN  [SetPlayer(w, [p EXCEPT !.player_end = IF IsSome(@) THEN @ ELSE Some(0)])
                      EXCEPT !.next_app_state = "EndGame",
                             !.events_old = 0, !.events_new = 0]
         \* `return` on the first event read: only that one is consumed
         ELSE IF w.events_old > 0
              THEN [w EXCEPT !.events_old = @ - 1]
              ELSE [w EXCEPT !.events_new = @ - 1]

---------------------------------------------------------------------------
(* The engine's schedules, as main() registers the systems *)

\* First: Events<CollisionEvent>::update swaps the two buffers
EventUpdate(w) == [w EXCEPT !.events_old = w.events_new, !.events_new = 0]

OnExitGameState(s, w) ==
    CASE s = "PlayerActionInProgress" -> player_check_for_bird(w)
      [] s = "GameTurnInProgress"     -> advance_game_turn(w)
      [] OTHER                        -> w

\* enter schedules with the spawn pass on entering the game turn
OnEnterGameState_spawn_in_turn(s, w) ==
    CASE s = "PlayerActionInProgress" -> setup_player_action_timer(w)
      [] s = "GameTurnInProgress"     -> spawn_logs(setup_game_turn_timer(w))
      [] s = "PlayerFinishingJump"    -> setup_player_jump_land_timer(w)
      [] OTHER                        -> w

OnEnterGameState(s, w) ==
    CASE s = "PlayerIdle"             -> spawn_logs(w)
      [] s = "PlayerActionInProgress" -> setup_player_action_timer(w)
      [] s = "GameTurnInProgress"     -> setup_game_turn_timer(w)
      [] s = "PlayerFinishingJump"    -> setup_player_jump_land_timer(w)
      [] OTHER                        -> w

OnExitAppState(s, w) ==
    IF s \in {"WinGame", "EndGame"} THEN cleanup_game(w) ELSE w

OnEnterAppState(s, w) ==
    IF s = "InGame" THEN setup_game_environment(w) ELSE w

\* the sub-state GameState exists (source AppState::InGame) with this value
\* after the pending NextState values are taken
NextGameState(w, parent_changed, new_app) ==
    IF parent_changed
    THEN IF new_app = "InGame"
         THEN IF w.next_game_state # "Unchanged" THEN w.next_game_state
              ELSE IF w.game_state # "None" THEN w.game_state
              ELSE "PlayerIdle"
         ELSE "None"
    ELSE IF w.game_state = "None" THEN "None"
    ELSE IF w.next_game_state # "Unchanged" THEN w.next_game_state
    ELSE w.game_state

\* StateTransition: apply the pending states, then the exit schedules from
\* the sub-state up, then the enter schedules from the parent down; an
\* identity transition runs no schedule
StateTransition(w) ==
    LET parent_changed == w.next_app_state # "Unchanged"
        new_app == IF parent_changed THEN w.next_app_state ELSE w.app_state
        new_gs == NextGameState(w, parent_changed, new_app)
        w0 == [w EXCEPT !.app_state = new_app, !.game_state = new_gs,
                        !.next_app_state = "Unchanged", !.next_game_state = "Unchanged"]
        w1 == IF w.game_state # new_gs THEN OnExitGameState(w.game_state, w0) ELSE w0
        w2 == IF w.app_state # new_app THEN OnExitAppState(w.app_state, w1) ELSE w1
        w3 == IF w.app_state # new_app THEN OnEnterAppState(new_app, w2) ELSE w2
    IN  IF w.game_state # new_gs THEN OnEnterGameState(new_gs, w3) ELSE w3

\* run_if(in_state(AppState::InGame)) of player_collision_handling_system
CollisionHandlingRuns(w) == w.app_state = "InGame"

CollisionHandling(w) ==
    IF CollisionHandlingRuns(w) THEN player_collision_handling_system(w) ELSE w

\* Update in GameState::PlayerIdle
UpdatePlayerIdle(w, in) ==
    LET a == CollisionHandling(update_aabb_system(w))
    IN  IF in.dbg_first
        THEN handle_player_input(toggle_debug_skip_player_action(a, in.keyZ, in.keyX), in.key)
        ELSE toggle_debug_skip_player_action(handle_player_input(a, in.key), in.keyZ, in.keyX)

\* Update in GameState::PlayerActionInProgress:
\* (process_player_action, update_player_pos_after_jump).chain()
UpdatePlayerAction(w, in) ==
    LET moved == IF in.aabb = "first"
                 THEN update_player_pos_after_jump(
                          process_player_action(update_aabb_system(w), in.dt))
                 ELSE update_aabb_system(update_player_pos_after_jump(
                          process_player_action(w, in.dt)))
    IN  toggle_debug_skip_player_action(CollisionHandling(moved), in.keyZ, in.keyX)

\* Update in GameState::GameTurnInProgress:
\* (process_game_turn, roll_logs, collision_detection_system).chain(), with
\* update_aabb_system before player_collision_handling_system in their chain
UpdateGameTurn(w, in) ==
    LET scanned ==
            CASE in.aabb = "first" ->
                    IF in.h_after
                    THEN CollisionHandling(collision_detection_system(
                             process_game_turn(update_aabb_system(w), in.dt)))
                    ELSE collision_detection_system(
                             process_game_turn(CollisionHandling(update_aabb_system(w)), in.dt))
              [] in.aabb = "mid" ->
                    IF in.h_after
                    THEN CollisionHandling(collision_detection_system(
                             update_aabb_system(process_game_turn(w, in.dt))))
                    ELSE collision_detection_system(
                             CollisionHandling(update_aabb_system(process_game_turn(w, in.dt))))
              [] OTHER ->
                    CollisionHandling(update_aabb_system(
                        collision_detection_system(process_game_turn(w, in.dt))))
    IN  toggle_debug_skip_player_action(scanned, in.keyZ, in.keyX)

\* Update in GameState::PlayerFinishingJump
UpdateFinishingJump(w, in) ==
    LET moved == IF in.aabb = "first"
                 THEN process_player_finishing_jump(update_aabb_system(w), in.dt)
                 ELSE update_aabb_system(process_player_finishing_jump(w, in.dt))
    IN  toggle_debug_skip_player_action(CollisionHandling(moved), in.keyZ, in.keyX)

\* Update in GameState::Paused: only the systems of AppState::InGame
UpdatePaused(w, in) ==
    toggle_debug_skip_player_action(CollisionHandling(update_aabb_system(w)),
                                    in.keyZ, in.keyX)

UpdateInGame(w, in) ==
    LET w1 == IF in.pause_last THEN w ELSE toggle_pause(w, in.space)
        w2 == CASE w.game_state = "PlayerIdle"             -> UpdatePlayerIdle(w1, in)
                [] w.game_state = "PlayerActionInProgress" -> UpdatePlayerAction(w1, in)
                [] w.game_state = "GameTurnInProgress"     -> UpdateGameTurn(w1, in)
                [] w.game_state = "PlayerFinishingJump"    -> UpdateFinishingJump(w1, in)
                [] OTHER                                   -> UpdatePaused(w1, in)
    IN  IF in.pause_last THEN toggle_pause(w2, in.space) ELSE w2

Update(w, in) ==
    CASE w.app_state = "AssetLoading" -> [w EXCEPT !.next_app_state = "InGame"]
      [] w.app_state = "InGame"       -> UpdateInGame(w, in)
      [] w.app_state = "EndGame"      ->
             CollisionHandling(player_end_handling_system(w, in.dt))
      [] OTHER                        -> CollisionHandling(update_win_timer(w, in.dt))

\* one frame: Update, then First and StateTransition of the next frame
Frame(w, in) == StateTransition(EventUpdate(Update(w, in)))

---------------------------------------------------------------------------
(* The state machine *)

\* a frame's input: the keys just pressed, the time since the last frame,
\* and the order in which the unordered systems run
NoInput ==
    [key |-> "None", space |-> FALSE, keyZ |-> FALSE, keyX |-> FALSE, dt |-> 0,
     aabb |-> "mid", h_after |-> TRUE, pause_last |-> TRUE, dbg_first |-> TRUE]

\* The scripted play-through: with collisions suppressed (KeyX) the player
\* rescues the birds at (7,2) and (3,5) and walks to the last bird at (8,7), then collisions are switched on again.  Every animation of
\* the script ends within one frame, but for the game turn, which takes a
\* frame that stops one step short of the end of the countdown and a frame
\* that finishes it.
Wait == [NoInput EXCEPT !.dt = TimerSteps]
Late == [NoInput EXCEPT !.dt = TimerSteps - 1]
Press(key) == [NoInput EXCEPT !.key = key]
Turn(key) == <<Press(key), Wait, Late, Wait>> \o (IF key = "KeyJ" THEN <<Wait>> ELSE <<>>)
RECURSIVE Turns(_)
Turns(keys) == IF keys = <<>> THEN <<>> ELSE Turn(Head(keys)) \o Turns(Tail(keys))

PlayThrough ==
    <<NoInput, [NoInput EXCEPT !.keyX = TRUE]>>
    \o Turns(<<"KeyA", "KeyW", "KeyW", "KeyJ",
               "KeyD", "KeyD", "KeyD", "KeyD", "KeyW", "KeyW", "KeyW", "KeyJ",
               "KeyA", "KeyA", "KeyA", "KeyA", "KeyA", "KeyW", "KeyW">>)
    \o <<[NoInput EXCEPT !.keyX = TRUE]>>

Scripted == script # <<>>

\* handle_player_input requests an action this frame
InputAccepted(w, in) ==
    \/ in.key # "None"
    \/ IF in.dbg_first /\ in.keyZ THEN ~w.skip_player_action ELSE w.skip_player_action

Toggles(in) == (IF in.keyZ THEN 1 ELSE 0) + (IF in.keyX THEN 1 ELSE 0)

\* the inputs the budgets have paid for so far, and the price of a frame's
InputsUsed ==
    (MaxTurns - turns_left) + (MaxPauses - pauses_left) + (MaxDebug - debug_left)
InputsOf(in) ==
    (IF in.space THEN 1 ELSE 0) + Toggles(in)
    + (IF game_state = "PlayerIdle" /\ InputAccepted(World, in) THEN 1 ELSE 0)

\* a key is pressed or not, while its budget lasts
Pressable(left) == IF left > 0 /\ InputsUsed < MaxInputs THEN BOOLEAN ELSE {FALSE}

\* the inputs of a frame outside the script, within the budgets
FreeInputs(keys, deltas) ==
    {in \in {[key |-> key, space |-> space, keyZ |-> keyZ, keyX |-> keyX, dt |-> dt,
              aabb |-> "mid", h_after |-> TRUE, pause_last |-> pause_last,
              dbg_first |-> dbg_first] :
                key \in keys, space \in Pressable(pauses_left),
                keyZ \in Pressable(debug_left), keyX \in Pressable(debug_left),
                dt \in deltas, pause_last \in BOOLEAN, dbg_first \in BOOLEAN} :
        /\ in.space => pauses_left > 0
        /\ Toggles(in) <= debug_left
        /\ InputsUsed + InputsOf(in) <= MaxInputs
        \* the place of toggle_pause in the frame matters only against another
        \* writer of NextState<GameState>
        /\ ~in.pause_last =>
              /\ in.space
              /\ IF game_state = "PlayerIdle" THEN InputAccepted(World, in)
                 ELSE game_state # "Paused" /\ action_timer + in.dt >= TimerSteps
        \* a delta that finishes the phase's timer acts as the whole duration
        /\ 0 < in.dt /\ in.dt < TimerSteps => action_timer + in.dt < TimerSteps
        \* skip_player_action is read by handle_player_input only
        /\ in.keyZ => game_state = "PlayerIdle"
        /\ ~(in.keyZ /\ in.key = "None" /\ game_state = "PlayerIdle") => in.dbg_first
        /\ InputAccepted(World, in) /\ game_state = "PlayerIdle" => turns_left > 0}

Inputs(keys, deltas) ==
    IF Scripted THEN {Head(script)} ELSE FreeInputs(keys, deltas)

\* where the chain of update_aabb_system and player_collision_handling_system
\* can run among the systems of the phase, which no ordering constrains
SystemOrders ==
    CASE Scripted \/ app_state # "InGame" -> {<<"mid", TRUE>>}
      [] game_state = "GameTurnInProgress" ->
             {<<"first", TRUE>>, <<"first", FALSE>>, <<"mid", TRUE>>, <<"mid", FALSE>>,
              <<"last", TRUE>>}
      [] game_state \in {"PlayerActionInProgress", "PlayerFinishingJump"} ->
             {<<"first", TRUE>>, <<"last", TRUE>>}
      [] OTHER -> {<<"mid", TRUE>>}

\* the ages of the hazards a tick of the game turn keeps: process_game_turn
\* drops the tagged logs that are out of bounds, and a tick that finishes the
\* countdown completes a game turn for the others
KeptAges(dt) ==
    LET t == TimerTick(action_timer, dt)
        Gone(i) == /\ IsSome(logs[i].log_roll)
                   /\ LogOutOfBounds(t, LerpFraction(Unwrap(logs[i].log_roll).start_position,
                                                     Unwrap(logs[i].log_roll).target_position, t))
        kept == SelectSeq([i \in DOMAIN logs |-> i], LAMBDA i : ~Gone(i))
        done == IF TimerJustFinished(action_timer, dt) THEN 1 ELSE 0
    IN  [k \in DOMAIN kept |-> log_age[kept[k]] + done]

\* the frames input `in` can produce
Frames(in) ==
    {Frame(World, [in EXCEPT !.aabb = o[1], !.h_after = o[2]]) : o \in SystemOrders}

\* the frame with input `in`
Step(in) ==
    \E r \in Frames(in) :
        /\ app_state' = r.app_state
        /\ game_state' = r.game_state
        /\ next_app_state' = r.next_app_state
        /\ next_game_state' = r.next_game_state
        /\ prev_state' = r.prev_state
        /\ is_moving' = r.is_moving
        /\ is_jumping' = r.is_jumping
        /\ skip_player_action' = r.skip_player_action
        /\ skip_player_collision' = r.skip_player_collision
        /\ action_timer' = r.action_timer
        /\ current_step' = r.current_step
        /\ bevy_count' = r.bevy_count
        /\ bird_map' = r.bird_map
        /\ player_pos' = r.player_pos
        /\ sequence_index' = r.sequence_index
        /\ player' = r.player
        /\ logs' = r.logs
        /\ events_old' = r.events_old
        /\ events_new' = r.events_new
        /\ spawn_history' = r.spawn_history
        /\ last_action' = IF app_state = "InGame" /\ game_state = "PlayerIdle"
                          THEN CASE in.key = "KeyJ"          -> "Jump"
                                 [] in.key # "None"          -> "Move"
                                 [] InputAccepted(World, in) -> "Auto"
                                 [] OTHER                    -> last_action
                          ELSE last_action
        /\ paused_from' = IF r.game_state = "Paused" /\ game_state # "Paused"
                          THEN Some(game_state)
                          ELSE IF r.game_state = "Paused" THEN paused_from ELSE None
        /\ sessions' = IF r.app_state = "InGame" /\ app_state # "InGame"
                       THEN sessions + 1 ELSE sessions
        /\ cycle_start' = CASE r.app_state # "InGame" \/ r.game_state = "PlayerIdle" -> None
                            [] game_state = "PlayerIdle"
                               /\ r.game_state = "PlayerActionInProgress" -> Some(current_step)
                            [] OTHER -> cycle_start
        /\ action_start' = CASE r.app_state # "InGame" -> None
                             [] r.game_state = "PlayerActionInProgress"
                                /\ game_state = "PlayerIdle" /\ player # None
                                  -> Some(player[1].translation)
                             [] OTHER -> action_start
        /\ log_age' = LET kept == IF app_state = "InGame" /\ game_state = "GameTurnInProgress"
                                   THEN KeptAges(in.dt)
                                   ELSE IF app_state \in {"EndGame", "WinGame"} /\ r.app_state # app_state
                                   THEN <<>> ELSE log_age
                       IN  kept \o [k \in 1..(Len(r.logs) - Len(kept)) |-> 0]
        /\ turn_start' = CASE r.app_state # "InGame" -> <<>>
                           [] r.game_state = "GameTurnInProgress"
                              /\ game_state \notin {"GameTurnInProgress", "Paused"}
                                -> [i \in DOMAIN r.logs |-> r.logs[i].translation]
                           [] OTHER -> turn_start
        /\ IF Scripted
           THEN /\ script' = Tail(script)
                /\ UNCHANGED <<turns_left, pauses_left, debug_left>>
           ELSE /\ script' = script
                /\ turns_left' = IF game_state = "PlayerIdle" /\ InputAccepted(World, in)
                                 THEN turns_left - 1 ELSE turns_left
                /\ pauses_left' = IF in.space THEN pauses_left - 1 ELSE pauses_left
                /\ debug_left' = debug_left - Toggles(in)
        /\ UNCHANGED <<legacy, call, result>>

LoadingFrame ==
    /\ app_state = "AssetLoading"
    /\ \E in \in Inputs({"None"}, {0}) : Step([in EXCEPT !.space = FALSE])

PlayerIdleFrame ==
    /\ app_state = "InGame" /\ game_state = "PlayerIdle"
    /\ \E in \in Inputs(Keys, {0}) : Step(in)

PlayerActionFrame ==
    /\ app_state = "InGame" /\ game_state = "PlayerActionInProgress"
    /\ \E in \in Inputs({"None"}, Deltas) : Step(in)

GameTurnFrame ==
    /\ app_state = "InGame" /\ game_state = "GameTurnInProgress"
    /\ \E in \in Inputs({"None"}, Deltas) : Step(in)

FinishingJumpFrame ==
    /\ app_state = "InGame" /\ game_state = "PlayerFinishingJump"
    /\ \E in \in Inputs({"None"}, Deltas) : Step(in)

PausedFrame ==
    /\ app_state = "InGame" /\ game_state = "Paused"
    /\ \E in \in Inputs({"None"}, {0}) : Step(in)

EndGameFrame ==
    /\ app_state = "EndGame"
    /\ \E dt \in Deltas : Step([NoInput EXCEPT !.dt = dt])

WinGameFrame ==
    /\ app_state = "WinGame"
    /\ \E dt \in Deltas : Step([NoInput EXCEPT !.dt = dt])

\* the step loop of game_logic.rs, logs.rs and player.rs, which main.rs does
\* not declare as modules: the state after its startup systems.  Game is
\* Game::default() of resources.rs; spawn_player has spawned the player with
\* no PlayerAction and no PlayerTimer; init_logs has written LogAction::Spawn.
\* events holds, for each system with an EventReader, the events it has not
\* read: those written one frame ago (old) and those written this frame (new).
\* game_action is history: GameState::GameAction was processed for the step.
LegacyConstructed ==
    [state |-> "None",
     current_step |-> 0,
     player_action_next |-> "JumpStart",
     log_sequence |-> <<3>>,
     player |-> [action |-> None, timer |-> None, y |-> TILE_SIZE],
     logs |-> <<>>,
     events |-> [game_step_event_handle |-> [old |-> <<>>, new |-> <<>>],
                 spawn_logs |-> [old |-> <<>>, new |-> <<>>],
                 player_state_next_event_handle |-> [old |-> <<>>, new |-> <<>>],
                 player_act |-> [old |-> <<>>, new |-> <<>>],
                 log_action |-> [old |-> <<>>, new |-> <<"Spawn">>]],
     game_action |-> FALSE]

\* no function is called on its own
NoCall == [fn |-> "none"]

\* the state after App::new()...run() has built the app: AppState::AssetLoading
Constructed ==
    /\ app_state = "AssetLoading"
    /\ game_state = "None"
    /\ next_app_state = "Unchanged"
    /\ next_game_state = "Unchanged"
    /\ prev_state = None
    /\ is_moving = "None"
    /\ is_jumping = FALSE
    /\ skip_player_action = FALSE
    /\ skip_player_collision = FALSE
    /\ action_timer = 0
    /\ current_step = 0
    /\ bevy_count = 0
    /\ bird_map = DefaultBirdMap
    /\ player_pos = DefaultPlayerPos
    /\ sequence_index = DefaultSequenceIndex
    /\ player = None
    /\ logs = <<>>
    /\ events_old = 0
    /\ events_new = 0
    /\ spawn_history = <<>>
    /\ last_action = "None"
    /\ paused_from = None
    /\ cycle_start = None
    /\ turn_start = <<>>
    /\ log_age = <<>>
    /\ action_start = None
    /\ sessions = 0
    /\ turns_left = MaxTurns
    /\ pauses_left = MaxPauses
    /\ debug_left = MaxDebug
    /\ legacy = LegacyConstructed

Init ==
    /\ Constructed
    /\ script \in {<<>>, PlayThrough}
    /\ call = NoCall
    /\ result = None

Next ==
    \/ LoadingFrame
    \/ PlayerIdleFrame
    \/ PlayerActionFrame
    \/ GameTurnFrame
    \/ FinishingJumpFrame
    \/ PausedFrame
    \/ EndGameFrame
    \/ WinGameFrame

Spec == Init /\ [][Next]_vars

\* a frame of a timed phase ticks the phase's countdown: time.delta() is
\* positive and the process_* system of the phase ticks the ActionTimer first
TimeAdvances ==
    /\ app_state = "InGame"
    /\ game_state \in {"PlayerActionInProgress", "GameTurnInProgress", "PlayerFinishingJump"}
    /\ action_timer < TimerSteps
    /\ action_timer' \in 0..TimerSteps

\* the app runs its schedules frame after frame, and time passes
SpecLive == Init /\ [][Next]_vars /\ WF_action_timer(TimeAdvances)

---------------------------------------------------------------------------
(* Calls of the functions on their own: an argument list is drawn at the
   start and the function is applied to it *)

\* the variables a call of a function of &self leaves alone
world_vars ==
    <<app_state, game_state, next_app_state, next_game_state, prev_state,
      is_moving, is_jumping, skip_player_action, skip_player_collision,
      action_timer, current_step, bevy_count, bird_map, player_pos,
      sequence_index, player, logs, events_old, events_new,
      spawn_history, last_action, paused_from, cycle_start, turn_start,
      action_start, log_age, sessions,
      script, turns_left, pauses_left, debug_left>>

\* board sizes: the small ones, i32::MAX, and the u32 values above it
BoardSizes ==
    {U32Of(n) : n \in 0..MaxBoard} \cup {<<32767, 65535>>, <<32768, 0>>, <<65535, 65535>>}

\* cells on the small boards, around them, and off the ground
Cells == {<<x, y, z>> : x \in -1..(MaxBoard + 1), y \in {-1, BIRD_Y}, z \in -1..(MaxBoard + 1)}

\* the games of the given board sizes with the player on one of the cells
Games(sizes, cells) ==
    {[board_size_x |-> sx, board_size_y |-> sz, player_pos |-> p] :
         sx \in sizes, sz \in sizes, p \in cells}

BoardCalls(games) ==
    {[fn |-> "is_valid_player_move", game |-> g, dir |-> d] : g \in games, d \in Directions}
    \cup {[fn |-> "is_valid_board_pos", game |-> [g EXCEPT !.player_pos = DefaultPlayerPos],
           pos |-> g.player_pos, dir |-> d] : g \in games, d \in Directions}

\* turn counters: the first ones, and the last ones an i32 holds
Steps == (0..MaxStep) \cup {2147483647 - k : k \in 0..MaxStep}

SequenceCalls ==
    {[fn |-> "seq_idx", step |-> t] : t \in Steps}
    \cup {[fn |-> "spawn_logs", step |-> t] : t \in Steps}

\* coordinates: small multiples of 4 units, whose halves and quarters are
\* whole units, and 2^26 units, where the f32 values are 8 units apart
Coords == {4 * k : k \in -MaxCoord..MaxCoord} \cup {67108864}
Vectors == {<<x, y, z>> : x \in Coords, y \in Coords, z \in Coords}

AabbCalls(vectors) ==
    {[fn |-> "LLAabb3d::new", center |-> c, half_extents |-> h] :
         c \in vectors, h \in vectors}

\* the boxes LLAabb3d::new builds between two corner points of a lattice of
\* 8 units: points, segments, faces and solid boxes
Corners == {<<8 * x, 8 * y, 8 * z>> : x \in 0..MaxCorner, y \in 0..MaxCorner,
                                       z \in 0..MaxCorner}
Boxes == {LLAabb3d_new(VHalf(VAdd(p, q)), VHalf(VSub(q, p))) : p \in Corners, q \in Corners}

IntersectsCalls(boxes) ==
    {[fn |-> "intersects", a |-> a, b |-> b] : a \in boxes, b \in boxes}

\* the cube of side 8 one step inside the lattice, against every box between
\* two corner points n steps along each axis: inside it, around it, touching
\* it at a face, an edge or a corner, and apart from it
MiddleCube == LLAabb3d_new(<<12, 12, 12>>, <<4, 4, 4>>)
BoxesOn(n) ==
    {LLAabb3d_new(VHalf(VAdd(p, q)), VHalf(VSub(q, p))) :
         p \in {<<8 * x, 8 * y, 8 * z>> : x \in 0..n, y \in 0..n, z \in 0..n},
         q \in {<<8 * x, 8 * y, 8 * z>> : x \in 0..n, y \in 0..n, z \in 0..n}}
ProbeCalls(boxes) ==
    {[fn |-> "intersects", a |-> MiddleCube, b |-> b] : b \in boxes}
    \cup {[fn |-> "intersects", a |-> b, b |-> MiddleCube] : b \in boxes}

\* a box is built and then moved to one centre after another
UpdateCenterCalls(built, centers) ==
    {[fn |-> "update_center", center |-> c, half_extents |-> h, centers |-> <<c1, c2>>] :
         c \in built, h \in built, c1 \in centers, c2 \in centers}

\* the entities of a scan: up to n of them, each of one classification in one of
\* three cubes, the second touching the first and the third apart from both
GameObjectTypes == {"Player", "Log", "Rock"}
ScanBoxes == {LLAabb3d_new(<<4, 4, 4>>, <<4, 4, 4>>), LLAabb3d_new(<<12, 4, 4>>, <<4, 4, 4>>),
              LLAabb3d_new(<<28, 4, 4>>, <<4, 4, 4>>)}
ScanCalls(n) ==
    {[fn |-> "collision_detection_system", objs |-> objs] :
         objs \in UNION {[1..k -> [got : GameObjectTypes, aabb : ScanBoxes]] : k \in 0..n}}

\* the systems that look the Player entity up
PlayerSystems ==
    {"setup_player_action_timer", "process_player_action", "update_player_pos_after_jump",
     "player_check_for_bird", "player_collision_handling_system", "player_wins_trigger",
     "setup_player_jump_land_timer", "process_player_finishing_jump"}

\* a run of one of them in a session that has no Player entity
PlayerSystemCalls ==
    {[fn |-> "player_system", system |-> system, dt |-> dt, timer |-> timer,
      is_jumping |-> jumping, skip |-> skip, events |-> events, birds |-> birds] :
         system \in PlayerSystems, dt \in Deltas, timer \in {0, TimerSteps \div 2},
         jumping \in BOOLEAN, skip \in BOOLEAN, events \in (0..1) \X (0..2),
         birds \in {{}, DefaultBirdMap}}

\* the world of the call: a session in the phase of the system, without a player
PlayerlessWorld(c) ==
    [World EXCEPT !.app_state = "InGame",
                  !.game_state = CASE c.system \in {"setup_player_action_timer",
                                                    "process_player_action",
                                                    "update_player_pos_after_jump",
                                                    "player_check_for_bird"}
                                        -> "PlayerActionInProgress"
                                   [] c.system \in {"setup_player_jump_land_timer",
                                                    "process_player_finishing_jump"}
                                        -> "PlayerFinishingJump"
                                   [] OTHER -> "GameTurnInProgress",
                  !.player = None, !.action_timer = c.timer, !.is_jumping = c.is_jumping,
                  !.skip_player_collision = c.skip,
                  !.events_old = c.events[1], !.events_new = c.events[2],
                  !.bird_map = c.birds]

\* the system of that name run once
PlayerSystem(system, w, dt) ==
    CASE system = "setup_player_action_timer"        -> setup_player_action_timer(w)
      [] system = "process_player_action"            -> process_player_action(w, dt)
      [] system = "update_player_pos_after_jump"     -> update_player_pos_after_jump(w)
      [] system = "player_check_for_bird"            -> player_check_for_bird(w)
      [] system = "player_collision_handling_system" -> player_collision_handling_system(w)
      [] system = "player_wins_trigger"              -> player_wins_trigger(w)
      [] system = "setup_player_jump_land_timer"     -> setup_player_jump_land_timer(w)
      [] OTHER                                       -> process_player_finishing_jump(w, dt)

Returns(fn, value) ==
    /\ call.fn = fn
    /\ result = None
    /\ result' = Some(value)
    /\ UNCHANGED <<world_vars, legacy, call>>

ValidPlayerMoveCall ==
    /\ call.fn = "is_valid_player_move"
    /\ Returns("is_valid_player_move", is_valid_player_move(call.game, call.dir))

ValidBoardPosCall ==
    /\ call.fn = "is_valid_board_pos"
    /\ Returns("is_valid_board_pos", is_valid_board_pos(call.game, call.pos, call.dir))

\* check_seq on the tables of the default level and on a table without a 0
SequenceTables ==
    {DefaultSeq[i].log_sequence_nth_step : i \in DOMAIN DefaultSeq}
    \cup {<<1, 2, 1, 3, 1, 2, 1, 4>>}

CheckSeqCalls ==
    {[fn |-> "check_seq", table |-> table, step |-> t, mod_val |-> m] :
         table \in SequenceTables, t \in Steps, m \in 0..1}

CheckSeqCall ==
    /\ call.fn = "check_seq"
    /\ Returns("check_seq", check_seq(call.table, call.step, call.mod_val))

SeqIdxCall ==
    /\ call.fn = "seq_idx"
    /\ Returns("seq_idx", seq_idx(call.step))

\* a spawn pass at turn counter call.step
SpawnLogsCall ==
    /\ call.fn = "spawn_logs"
    /\ result = None
    /\ \E r \in {spawn_logs([World EXCEPT !.current_step = call.step])} :
           /\ current_step' = r.current_step
           /\ sequence_index' = r.sequence_index
           /\ logs' = r.logs
           /\ spawn_history' = r.spawn_history
           /\ result' = Some(Len(r.logs))
    /\ UNCHANGED <<app_state, game_state, next_app_state, next_game_state, prev_state,
                   is_moving, is_jumping, skip_player_action, skip_player_collision,
                   action_timer, bevy_count, bird_map, player_pos, player,
                   events_old, events_new, last_action, paused_from, cycle_start,
                   turn_start, action_start, log_age, sessions, script, turns_left, pauses_left, debug_left,
                   legacy, call>>

AabbNewCall ==
    /\ call.fn = "LLAabb3d::new"
    /\ Returns("LLAabb3d::new", LLAabb3d_new(call.center, call.half_extents))

IntersectsCall ==
    /\ call.fn = "intersects"
    /\ Returns("intersects", intersects(call.a, call.b))

\* the boxes of the call so far: the one LLAabb3d::new built, then the one
\* each update_center left
BoxesSoFar ==
    IF IsSome(result) THEN Unwrap(result)
    ELSE <<LLAabb3d_new(call.center, call.half_extents)>>

UpdateCenterCall ==
    /\ call.fn = "update_center"
    /\ Len(BoxesSoFar) <= Len(call.centers)
    /\ result' = Some(Append(BoxesSoFar,
                             update_center(BoxesSoFar[Len(BoxesSoFar)],
                                           call.centers[Len(BoxesSoFar)])))
    /\ UNCHANGED <<world_vars, legacy, call>>

ScanCall ==
    /\ call.fn = "collision_detection_system"
    /\ Returns("collision_detection_system", ScanEvents(call.objs))

PlayerSystemCall ==
    /\ call.fn = "player_system"
    /\ Returns("player_system", PlayerSystem(call.system, PlayerlessWorld(call), call.dt))

CallsInit ==
    /\ Constructed
    /\ script = <<>>
    /\ \/ call \in BoardCalls(Games(BoardSizes, Cells))
       \/ call \in SequenceCalls
       \/ call \in AabbCalls(Vectors)
       \/ call \in IntersectsCalls(Boxes)
       \/ call \in ProbeCalls(BoxesOn(MaxCorner + 2))
       \/ call \in ScanCalls(MaxObjects)
       \/ call \in PlayerSystemCalls
       \/ call \in CheckSeqCalls
       \/ call \in UpdateCenterCalls({<<x, -x, x>> : x \in Coords},
                                     {<<x, y, x>> : x \in Coords, y \in Coords})
    /\ result = None

CallsNext ==
    \/ ValidPlayerMoveCall
    \/ ValidBoardPosCall
    \/ SeqIdxCall
    \/ SpawnLogsCall
    \/ AabbNewCall
    \/ IntersectsCall
    \/ UpdateCenterCall
    \/ ScanCall
    \/ PlayerSystemCall
    \/ CheckSeqCall

SpecCalls == CallsInit /\ [][CallsNext]_vars

---------------------------------------------------------------------------
(* The step loop of game_logic.rs, logs.rs and player.rs.  Times are in
   hundredths of a second and lengths in TILE_SIZE units.  The systems of a
   set of system_sets.rs are chained, and the commands of one are applied
   before the next runs; no order is given among the sets, so a frame runs
   them in an order chosen per frame.  player_cursor_update moves only the
   cursor's Transform, which no other system reads, and is left out. *)

MaxLegacySteps == 2
JumpStartTime == 18
JumpCompleteTime == 14
LogSpeed == 125
LegacyDeltas == {10, 20}

\* EventWriter::write: the event reaches every reader of its type
Write(g, readers, e) ==
    LET evs == g.events
    IN  [g EXCEPT !.events = [r \in DOMAIN evs |->
            IF r \in readers THEN [old |-> evs[r].old, new |-> Append(evs[r].new, e)]
            ELSE evs[r]]]

\* EventReader::read: the events the reader has not read, oldest first
Unread(g, r) == g.events[r].old \o g.events[r].new

\* the reader has iterated over the first n of them
Consume(g, r, n) ==
    LET q == g.events[r]
        k == Len(q.old)
    IN  [g EXCEPT !.events[r] =
            [old |-> SubSeq(q.old, n + 1, k),
             new |-> SubSeq(q.new, (IF n > k THEN n - k ELSE 0) + 1, Len(q.new))]]

\* a move key released writes PlayerState::Next(Move(_)), Space released
\* writes GameEvents::StepForward
handle_keys(g, keys) ==
    LET moved == IF "KeyW" \in keys
                 THEN Write(g, {"player_state_next_event_handle"}, "Move") ELSE g
    IN  IF "Space" \in keys
        THEN Write(moved, {"game_step_event_handle", "spawn_logs"}, "StepForward")
        ELSE moved

update_game_loop(g) ==
    CASE g.state = "None" ->
            [Write(g, {"log_action"}, "Idle") EXCEPT !.player_action_next = "JumpStart"]
      [] g.state = "Playing" -> g
      [] g.state = "PlayerAction" ->
            Write([g EXCEPT !.state = "Playing"], {"player_act"}, g.player_action_next)
      [] g.state = "GameAction" ->
            Write([g EXCEPT !.state = "Playing", !.game_action = TRUE],
                  {"log_action"}, "Moving")
      [] g.state = "GameActionComplete" ->
            Write(Write([g EXCEPT !.state = "Playing"], {"log_action"}, "Idle"),
                  {"player_act"}, g.player_action_next)

\* StepForward is the only GameEvents value a system writes; the first one
\* read in state None is accepted and leaves the state PlayerAction
game_step_event_handle(g) ==
    LET evs == Unread(g, "game_step_event_handle")
        read == Consume(g, "game_step_event_handle", Len(evs))
    IN  IF evs # <<>> /\ g.state = "None"
        THEN [read EXCEPT !.current_step = @ + 1, !.state = "PlayerAction",
                          !.game_action = FALSE]
        ELSE read

\* spawn_logs of logs.rs: the front of log_sequence is popped at its step
legacy_spawn_logs(g) ==
    LET evs == Unread(g, "spawn_logs")
        read == Consume(g, "spawn_logs", Len(evs))
    IN  IF evs # <<>> /\ g.log_sequence # <<>> /\ Head(g.log_sequence) = g.current_step
        THEN Write([read EXCEPT !.log_sequence = Tail(@)], {"log_action"}, "Spawn")
        ELSE read

logs_move_finished(g) ==
    IF g.logs = <<>> /\ g.state = "Playing"
    THEN [g EXCEPT !.state = "GameActionComplete"]
    ELSE IF /\ \A k \in DOMAIN g.logs : g.logs[k].arrived
            /\ g.logs # <<>>
            /\ g.state = "Playing"
    THEN [g EXCEPT !.state = "GameActionComplete",
                   !.logs = [k \in DOMAIN @ |-> [@[k] EXCEPT !.arrived = FALSE, !.dest = None]]]
    ELSE g

\* the loop of log_action from its i-th unread event on; query is the logs
\* at the start of the system, the first Len(query) entries of g.logs
RECURSIVE log_action_from(_, _, _)
log_action_from(g, query, i) ==
    LET evs == Unread(g, "log_action")
    IN  IF i > Len(evs) THEN Consume(g, "log_action", Len(evs))
        ELSE CASE evs[i] = "Idle" -> log_action_from(g, query, i + 1)
               [] evs[i] = "Moving" ->
                    IF query = <<>> /\ g.state = "Playing"
                    THEN Consume([g EXCEPT !.state = "GameActionComplete"], "log_action", i)
                    ELSE log_action_from(
                            [g EXCEPT !.logs = [k \in DOMAIN @ |->
                                IF k <= Len(query)
                                THEN [@[k] EXCEPT !.dest = Some(query[k].z - 2 * TILE_SIZE)]
                                ELSE @[k]]],
                            query, i + 1)
               [] evs[i] = "Spawn" ->
                    log_action_from(
                        [g EXCEPT !.logs = Append(@, [z |-> (BoardSizeY - 2) * TILE_SIZE,
                                                      dest |-> None, arrived |-> FALSE])],
                        query, i + 1)

log_action(g) == log_action_from(g, g.logs, 1)

\* a log with a LogLogDest moves LogSpeed towards it, arrives on the frame
\* after it reached it, and is despawned where is_valid_board_pos of
\* resources.rs fails for the truncated position one tile further South
log_roll(g, dt) ==
    LET step == (LogSpeed * dt * TILE_SIZE) \div 10000
        Dist(l) == IF Unwrap(l.dest) < l.z THEN l.z - Unwrap(l.dest) ELSE Unwrap(l.dest) - l.z
        AtDest(l) == Dist(l) * 1000 < TILE_SIZE
        Moved(l) == IF step >= Dist(l) THEN Unwrap(l.dest)
                    ELSE IF Unwrap(l.dest) < l.z THEN l.z - step ELSE l.z + step
        Rolled(l) == IF l.dest = None THEN l
                     ELSE IF AtDest(l) THEN [l EXCEPT !.dest = None, !.arrived = TRUE]
                     ELSE [l EXCEPT !.z = Moved(l)]
        Valid(z) == LET cell == (z \div TILE_SIZE) - 1 IN cell > -1 /\ cell <= BoardSizeY
        Kept(l) == l.dest = None \/ AtDest(l) \/ Valid(Moved(l))
    IN  [g EXCEPT !.logs = LET kept == SelectSeq(@, Kept)
                           IN  [k \in DOMAIN kept |-> Rolled(kept[k])]]

player_state_next_event_handle(g) ==
    LET evs == Unread(g, "player_state_next_event_handle")
    IN  IF g.state = "Playing" \/ evs = <<>> THEN g
        ELSE [Consume(g, "player_state_next_event_handle", Len(evs))
                EXCEPT !.player_action_next = evs[Len(evs)]]

\* the loop of player_act from its i-th unread event on; existing_timer is
\* the player's PlayerTimer at the start of the system
RECURSIVE player_act_from(_, _, _)
player_act_from(g, existing_timer, i) ==
    LET evs == Unread(g, "player_act")
    IN  IF i > Len(evs) THEN Consume(g, "player_act", Len(evs))
        ELSE player_act_from(
                CASE evs[i] = "Move" -> g
                  [] evs[i] = "JumpStart" ->
                        [g EXCEPT !.player.action = Some("Start"),
                                  !.player.timer = Some([elapsed |-> 0, duration |-> JumpStartTime])]
                  [] evs[i] = "JumpMidAir" ->
                        [g EXCEPT !.player_action_next = "JumpComplete", !.state = "GameAction"]
                  [] evs[i] = "JumpComplete" ->
                        IF existing_timer = None
                        THEN [g EXCEPT !.player.action = Some("Complete"),
                                       !.player.timer = Some([elapsed |-> 0, duration |-> JumpCompleteTime])]
                        ELSE g
                  [] evs[i] = "Complete" -> [g EXCEPT !.state = "None"],
                existing_timer, i + 1)

player_act(g) == player_act_from(g, g.player.timer, 1)

player_jump(g, dt) ==
    IF g.player.action = None \/ g.player.timer = None THEN g
    ELSE LET timer == Unwrap(g.player.timer)
             elapsed == IF timer.elapsed + dt > timer.duration THEN timer.duration
                        ELSE timer.elapsed + dt
             finished == elapsed >= timer.duration
             ticked == [g EXCEPT !.player.timer = Some([timer EXCEPT !.elapsed = elapsed])]
         IN  CASE Unwrap(g.player.action) = "Start" ->
                    IF finished
                    THEN Write([ticked EXCEPT !.player.y = @ + TILE_SIZE,
                                              !.player.action = Some("MidAir")],
                               {"player_act"}, "JumpMidAir")
                    ELSE ticked
               [] Unwrap(g.player.action) = "MidAir" -> g
               [] Unwrap(g.player.action) = "Complete" ->
                    IF finished
                    THEN Write([ticked EXCEPT !.player.y = @ - TILE_SIZE,
                                              !.player.action = None,
                                              !.player.timer = None],
                               {"player_act"}, "Complete")
                    ELSE ticked

\* the systems of a set of SystemSets::systems, in the order of its chain
SetSystems(set) ==
    CASE set = "InputSet" -> <<"handle_keys">>
      [] set = "GameSetUpdate" ->
            <<"update_game_loop", "game_step_event_handle", "spawn_logs",
              "logs_move_finished", "log_action", "log_roll">>
      [] set = "PlayerSetUpdate" ->
            <<"player_state_next_event_handle", "player_act", "player_jump">>

System(name, g, keys, dt) ==
    CASE name = "handle_keys" -> handle_keys(g, keys)
      [] name = "update_game_loop" -> update_game_loop(g)
      [] name = "game_step_event_handle" -> game_step_event_handle(g)
      [] name = "spawn_logs" -> legacy_spawn_logs(g)
      [] name = "logs_move_finished" -> logs_move_finished(g)
      [] name = "log_action" -> log_action(g)
      [] name = "log_roll" -> log_roll(g, dt)
      [] name = "player_state_next_event_handle" -> player_state_next_event_handle(g)
      [] name = "player_act" -> player_act(g)
      [] name = "player_jump" -> player_jump(g, dt)

\* the systems run one after the other, each on what the one before left
RECURSIVE RunSystems(_, _, _, _)
RunSystems(systems, g, keys, dt) ==
    IF systems = <<>> THEN g
    ELSE CHOOSE r \in {RunSystems(Tail(systems), x, keys, dt) :
                            x \in {System(Head(systems), g, keys, dt)}} : TRUE

SetOrders ==
    {o \in [1..3 -> {"InputSet", "GameSetUpdate", "PlayerSetUpdate"}] :
        \A i, j \in 1..3 : i # j => o[i] # o[j]}

\* a frame: the event buffers are swapped in First, then the sets run
LegacyFrame ==
    \E keys \in SUBSET {"KeyW", "Space"}, dt \in LegacyDeltas, o \in SetOrders :
        /\ "Space" \in keys => legacy.current_step < MaxLegacySteps
        /\ legacy' \in
            {RunSystems(SetSystems(o[1]) \o SetSystems(o[2]) \o SetSystems(o[3]),
                        swapped, keys, dt) :
                swapped \in {[legacy EXCEPT !.events =
                                [r \in DOMAIN @ |-> [old |-> @[r].new, new |-> <<>>]]]}}
        /\ UNCHANGED <<world_vars, call, result>>

LegacyInit ==
    /\ Constructed
    /\ script = <<>>
    /\ call = NoCall
    /\ result = None

\* the app runs its schedules frame after frame
SpecLegacy == LegacyInit /\ [][LegacyFrame]_vars /\ WF_legacy(LegacyFrame)

---------------------------------------------------------------------------
(* The turn cycle *)

InSession == app_state = "InGame"

\* a change of the turn phase that neither enters nor leaves Paused
PhaseChange(from, to) == game_state = from /\ game_state' = to

TurnPhaseChanges ==
    /\ game_state \in TurnPhases /\ game_state' \in TurnPhases
    /\ game_state' # game_state

\* C1: ignoring pause, the turn phase changes only along PlayerIdle ->
\* PlayerActionInProgress -> GameTurnInProgress -> (PlayerFinishingJump ->)
\* PlayerIdle; PlayerFinishingJump is entered only from GameTurnInProgress
\* and only after a jump, and a jump never returns to PlayerIdle directly.
C1_TurnPhaseOrder ==
    [][TurnPhaseChanges =>
          \/ PhaseChange("PlayerIdle", "PlayerActionInProgress")
          \/ PhaseChange("PlayerActionInProgress", "GameTurnInProgress")
          \/ PhaseChange("GameTurnInProgress", "PlayerFinishingJump")
                /\ last_action # "Move"
          \/ PhaseChange("GameTurnInProgress", "PlayerIdle")
                /\ last_action # "Jump"
          \/ PhaseChange("PlayerFinishingJump", "PlayerIdle")]_vars

\* a jump turn is landing after move turns have ended without a landing
C1_Witness ==
    /\ game_state = "PlayerFinishingJump" /\ last_action = "Jump"
    /\ current_step > 1

---------------------------------------------------------------------------
(* Pause *)

\* toggle_pause has handled a press of Space in this frame
PauseToggleAccepted == InSession /\ pauses_left' = pauses_left - 1

\* C2: a pause toggle accepted in a turn phase X makes the phase Paused, and
\* the next accepted toggle makes the phase exactly X again.
C2_PauseReturnsToPhase ==
    [][PauseToggleAccepted =>
          IF game_state = "Paused"
          THEN IsSome(paused_from) /\ game_state' = Unwrap(paused_from)
          ELSE game_state' = "Paused"]_vars

PlayerPosition(p) == IF IsSome(p) THEN Some(Unwrap(p).translation) ELSE None
HazardPositions(ls) == [i \in DOMAIN ls |-> ls[i].translation]

\* C3: from the accepted pause toggle to the accepted resume toggle, the
\* transition into Paused included, the turn counter, the bird map and the
\* rescue counter do not change, and while the phase stays Paused neither do
\* the player's position and the hazards and their positions.
C3_PauseFreezesSimulation ==
    [][game_state' = "Paused" =>
          /\ current_step' = current_step
          /\ bird_map' = bird_map
          /\ bevy_count' = bevy_count
          /\ game_state = "Paused" =>
                /\ player_pos' = player_pos
                /\ PlayerPosition(player') = PlayerPosition(player)
                /\ HazardPositions(logs') = HazardPositions(logs)]_vars

\* C4: within a session the turn counter never decreases, and a full turn
\* cycle, from leaving PlayerIdle with an action to the next return to
\* PlayerIdle, increases it by exactly one, paused in between or not.
C4_OneStepPerTurn ==
    [][/\ InSession /\ app_state' = "InGame" => current_step' >= current_step
       /\ IsSome(cycle_start) /\ game_state' = "PlayerIdle"
             => current_step' = Unwrap(cycle_start) + 1]_vars

---------------------------------------------------------------------------
(* Spawn passes *)

Sequences == DOMAIN DefaultSeq

\* the sequences whose table entry at idx is > 0
Triggering(idx) == {i \in Sequences : DefaultSeq[i].log_sequence_nth_step[idx + 1] > 0}

ExpectedX(i, idx) ==
    (DefaultSeq[i].spawn_offset_x_base + DefaultSeq[i].spawn_offset_x[idx + 1]) * TILE_SIZE
        - TILE_HALF_SIZE
ExpectedZ(i, idx) == (BoardSizeY - DefaultSeq[i].spawn_offset_z[idx + 1]) * TILE_SIZE

SpawnedAt(h, i, idx) ==
    {j \in DOMAIN h.spawned : /\ h.spawned[j].translation[1] = ExpectedX(i, idx)
                              /\ h.spawned[j].translation[3] = ExpectedZ(i, idx)}

\* C5: a spawn pass at turn counter t, idx = t mod 8, spawns exactly one
\* hazard for each sequence whose table entry at idx is > 0 and none for the
\* others, at x = base + x_offset[idx] - half a tile and z = board_size_y -
\* z_offset[idx]; the triggering sequences' index becomes idx, the others'
\* index is kept.
C5_SpawnPass ==
    \A k \in DOMAIN spawn_history :
        LET h == spawn_history[k]
            idx == h.step % 8
        IN  /\ Len(h.spawned) = Cardinality(Triggering(idx))
            /\ \A i \in Triggering(idx) : Cardinality(SpawnedAt(h, i, idx)) = 1
            /\ \A i \in Sequences :
                   h.index_after[i] = IF i \in Triggering(idx) THEN idx ELSE h.index_before[i]

\* passes of the session: one where a single sequence spawns with a shifted
\* x, one past the table's end, and one where all sequences spawn and one
\* of them with a shifted z
C5_Witness ==
    /\ \E k \in DOMAIN spawn_history :
           spawn_history[k].step = 1 /\ Len(spawn_history[k].spawned) = 1
    /\ \E k \in DOMAIN spawn_history :
           spawn_history[k].step = 9 /\ spawn_history[k].index_before # spawn_history[k].index_after
    /\ \E k \in DOMAIN spawn_history :
           spawn_history[k].step = 18 /\ Len(spawn_history[k].spawned) = 3

\* C6: exactly one spawn pass is performed for each value the turn counter
\* takes in a session: the passes are those of the counter values 0, 1, 2,
\* ... in order, none twice and none skipped, and PlayerIdle is occupied
\* only after the pass of the current counter value.
C6_OnePassPerStep ==
    InSession =>
        /\ \A k \in DOMAIN spawn_history : spawn_history[k].step = k - 1
        /\ Len(spawn_history) \in {current_step, current_step + 1}
        /\ game_state = "PlayerIdle" => Len(spawn_history) = current_step + 1

---------------------------------------------------------------------------
(* Collisions and the end of a session *)

\* the PlayerEnd timer of the player, if the player is tagged
EndTimer(p) == IF IsSome(p) THEN Unwrap(p).player_end ELSE None

\* a CollisionEvent of the last frame is waiting for the handler
NotificationPending == events_old > 0

\* C7: with collision suppression off, a notified overlap of the player and
\* a log moves the session from InGame to EndGame; EndGame is entered from
\* InGame only, with the end timer freshly started, and while the session
\* stays in EndGame the tag stays and the timer only advances, pending
\* notifications or not.
C7_EndGameOnce ==
    [][/\ InSession /\ NotificationPending /\ ~skip_player_collision /\ IsSome(player)
             => app_state' = "EndGame"
       /\ app_state # "EndGame" /\ app_state' = "EndGame"
             => InSession /\ EndTimer(player') = Some(0)
       /\ app_state = "EndGame" /\ app_state' = "EndGame"
             => /\ IsSome(EndTimer(player)) /\ IsSome(EndTimer(player'))
                /\ Unwrap(EndTimer(player')) > Unwrap(EndTimer(player))]_vars

\* the session is in EndGame and a further notification is pending
C7_Witness == app_state = "EndGame" /\ NotificationPending /\ IsSome(EndTimer(player))

\* C8: while the collision-suppression flag is set, no frame moves the
\* session to EndGame or tags the player with the end timer.
C8_SuppressedCollisions ==
    [][InSession /\ skip_player_collision
          => app_state' # "EndGame" /\ ~IsSome(EndTimer(player'))]_vars

\* a notification is pending while the flag is set
C8_Witness ==
    InSession /\ skip_player_collision /\ NotificationPending /\ IsSome(player)

---------------------------------------------------------------------------
(* The terminal phases *)

Terminal == app_state \in {"EndGame", "WinGame"}

\* the PlayerWin timer of the player, if the player is tagged
WinTimer(p) == IF IsSome(p) THEN Unwrap(p).player_win ELSE None

\* the timer of the terminal phase the session is in
TerminalTimer(app, p) ==
    CASE app = "EndGame" -> EndTimer(p)
      [] app = "WinGame" -> WinTimer(p)
      [] OTHER           -> None

\* C9: a session in EndGame or WinGame returns to InGame without any input
\* as time keeps advancing: every frame spent in a terminal phase either
\* returns to InGame or stays in the phase with its timer strictly advanced
\* and not yet expired, so that no terminal phase can last forever.
C9_TerminalPhasesReturn ==
    [][Terminal =>
          \/ app_state' = "InGame"
          \/ /\ app_state' = app_state
             /\ IsSome(TerminalTimer(app_state, player))
             /\ IsSome(TerminalTimer(app_state', player'))
             /\ Unwrap(TerminalTimer(app_state', player'))
                    > Unwrap(TerminalTimer(app_state, player))
             /\ Unwrap(TerminalTimer(app_state', player')) < TimerSteps]_vars

\* a terminal phase whose timer has been running, one frame short of the end
C9_Witness ==
    /\ Terminal /\ IsSome(TerminalTimer(app_state, player))
    /\ Unwrap(TerminalTimer(app_state, player)) > 0

\* the hazards are those of the first spawn pass of a session
FirstPassOnly(ls) ==
    /\ Len(ls) = Cardinality(Triggering(0))
    /\ \A j \in DOMAIN ls :
          /\ \E i \in Triggering(0) : /\ ls[j].translation[1] = ExpectedX(i, 0)
                                      /\ ls[j].translation[3] = ExpectedZ(i, 0)
          /\ ls[j].log_roll = None

\* C10: every re-entry of InGame from EndGame or WinGame starts a fresh
\* session: turn counter 0, rescue counter 0, all of the level's birds in
\* the bird map, no hazard of the previous session, and the turn phase
\* PlayerIdle.
C10_FreshSession ==
    [][Terminal /\ app_state' = "InGame" =>
          /\ current_step' = 0
          /\ bevy_count' = 0
          /\ bird_map' = DefaultBirdMap
          /\ FirstPassOnly(logs')
          /\ game_state' = "PlayerIdle"]_vars

\* a second session has begun
C10_Witness == InSession /\ sessions = 2 /\ game_state = "PlayerIdle"

---------------------------------------------------------------------------
(* Rescues and the win *)

\* a rescue removes the last entry of the bird map in this frame
LastRescue == InSession /\ bird_map # {} /\ bird_map' = {}

\* C11: when a rescue removes the last entry of the bird map, WinGame is
\* entered in that same frame, not a later one, and WinGame is never entered
\* while the bird map is non-empty.
C11_WinOnLastRescue ==
    [][/\ LastRescue => app_state' = "WinGame"
       /\ app_state # "WinGame" /\ app_state' = "WinGame" => bird_map' = {}]_vars

\* the bird-map key of the cell the player stands on or hovers over
PlayerCell(p) ==
    LET at == AsIVec3(Unwrap(p).translation) IN <<at[1], BIRD_Y, at[3]>>

\* the jump start of a jump turn ends in this frame
JumpCompletes ==
    /\ InSession /\ game_state = "PlayerActionInProgress" /\ is_jumping
    /\ game_state' = "GameTurnInProgress" /\ IsSome(player)

\* C12: when a jump action completes with the player on cell (x,z), the
\* entry (x, BIRD_Y, z) of the bird map is removed if present and the rescue
\* counter grows by exactly one; if there is no such entry, the bird map and
\* the rescue counter are unchanged.
C12_RescueOnJump ==
    [][JumpCompletes =>
          IF PlayerCell(player) \in bird_map
          THEN bird_map' = bird_map \ {PlayerCell(player)} /\ bevy_count' = bevy_count + 1
          ELSE bird_map' = bird_map /\ bevy_count' = bevy_count]_vars

\* the jump over (7,2) has just rescued the first bird
C12_Witness ==
    /\ InSession /\ game_state = "GameTurnInProgress" /\ is_jumping
    /\ bevy_count = 1 /\ bird_map = DefaultBirdMap \ {<<7, BIRD_Y, 2>>}
    /\ IsSome(player) /\ PlayerCell(player) = <<7, BIRD_Y, 2>>

\* C13: the rescue lookup runs only when the action leaving
\* PlayerActionInProgress is a jump: within a session the bird map and the
\* rescue counter change only in a frame that leaves PlayerActionInProgress
\* with a jump, and a plain Move that ends on a bird's cell removes no bird
\* and leaves the rescue counter alone.
C13_RescueOnlyOnJump ==
    [][InSession =>
          /\ bird_map' # bird_map \/ bevy_count' # bevy_count =>
                /\ game_state = "PlayerActionInProgress" /\ is_jumping
                /\ game_state' # "PlayerActionInProgress"
          /\ game_state = "PlayerActionInProgress" /\ ~is_jumping =>
                bird_map' = bird_map /\ bevy_count' = bevy_count]_vars

\* a Move has just ended on the cell of a bird that is still on the map
C13_Witness ==
    /\ InSession /\ game_state = "GameTurnInProgress" /\ ~is_jumping
    /\ last_action = "Move" /\ IsSome(player) /\ PlayerCell(player) \in bird_map

\* C14: in every state of a session the rescue counter plus the number of
\* bird-map entries is the number of birds the level started with; within a
\* session entries are only removed, each removal adds exactly one to the
\* counter, and the counter never decreases.
C14_BirdsConserved ==
    /\ [](InSession => bevy_count + Cardinality(bird_map) = Cardinality(DefaultBirdMap))
    /\ [][InSession /\ app_state' = "InGame" =>
             /\ bird_map' \subseteq bird_map
             /\ bevy_count' >= bevy_count
             /\ bevy_count' - bevy_count = Cardinality(bird_map \ bird_map')
             /\ Cardinality(bird_map \ bird_map') <= 1]_vars

\* two birds are rescued and one is left
C14_Witness ==
    InSession /\ bevy_count = 2 /\ bird_map = {<<8, BIRD_Y, 7>>}

---------------------------------------------------------------------------
(* The board *)

\* cell p lies on the tile grid
OnGrid(p) == 0 <= p[1] /\ p[1] < BoardSizeX /\ 0 <= p[3] /\ p[3] < BoardSizeY

\* C15: a Move whose post-move cell lies outside the tile grid is rejected
\* and does not move the player: after any sequence of player actions the
\* player's grid position has 0 <= x < board_size_x and 0 <= z < board_size_y.
C15_PlayerStaysOnGrid ==
    InSession => /\ OnGrid(player_pos)
                 /\ IsSome(player) => OnGrid(AsIVec3(Unwrap(player).translation))

\* the call of fn has returned
Returned(fn) == call.fn = fn /\ IsSome(result)

\* n < u for an i32 n >= 0 and a u32 u
BelowU32(n, u) == u[1] >= 32768 \/ n < u[1] * 65536 + u[2]

\* the board size fits an i32
FitsI32(u) == u[1] < 32768

\* the cell a move in direction dir from cell p ends on
PostMove(p, dir) == VAdd(p, DirectionValue(dir))

\* 0 <= x < Sx and 0 <= z < Sz
InHalfOpenRange(p, game) ==
    /\ 0 <= p[1] /\ BelowU32(p[1], game.board_size_x)
    /\ 0 <= p[3] /\ BelowU32(p[3], game.board_size_y)

\* C16: for every player position p, direction d and board size (Sx,Sz),
\* is_valid_player_move(d) is true iff p + d has 0 <= x < Sx and 0 <= z < Sz,
\* whatever y is.
C16_ValidPlayerMove ==
    Returned("is_valid_player_move") =>
        Unwrap(result) = InHalfOpenRange(PostMove(call.game.player_pos, call.dir), call.game)

\* C16 for the board sizes up to i32::MAX
C16_ValidPlayerMoveI32 ==
    /\ Returned("is_valid_player_move")
    /\ FitsI32(call.game.board_size_x) /\ FitsI32(call.game.board_size_y)
    => Unwrap(result) = InHalfOpenRange(PostMove(call.game.player_pos, call.dir), call.game)

\* a move off the ground onto x = Sx, the first cell beyond the board, is refused
C16_Witness ==
    /\ Returned("is_valid_player_move") /\ Unwrap(result) = FALSE
    /\ FitsI32(call.game.board_size_x) /\ FitsI32(call.game.board_size_y)
    /\ call.dir = "East" /\ call.game.player_pos[2] # 0
    /\ PostMove(call.game.player_pos, call.dir)[1] = as_i32(call.game.board_size_x)
    /\ PostMove(call.game.player_pos, call.dir)[3] = 0
    /\ as_i32(call.game.board_size_y) > 0

\* 0 <= x <= Sx and 0 <= z <= Sz
InClosedRange(p, game) ==
    /\ 0 <= p[1]
    /\ BelowU32(p[1], game.board_size_x) \/ U32Of(p[1]) = game.board_size_x
    /\ 0 <= p[3]
    /\ BelowU32(p[3], game.board_size_y) \/ U32Of(p[3]) = game.board_size_y

\* the board test of the cell agrees with the closed range, and a cell the
\* player-move test accepts is accepted
ClosedRangeTest ==
    LET p == PostMove(call.pos, call.dir)
    IN  /\ Unwrap(result) = InClosedRange(p, call.game)
        /\ is_valid_player_move([call.game EXCEPT !.player_pos = call.pos], call.dir)
              => Unwrap(result)
        /\ Unwrap(result) /\ ~InHalfOpenRange(p, call.game)
              => U32Of(p[1]) = call.game.board_size_x \/ U32Of(p[3]) = call.game.board_size_y

\* C17: for every position p, direction d and board size (Sx,Sz),
\* is_valid_board_pos(p,d) is true iff p + d has 0 <= x <= Sx and
\* 0 <= z <= Sz: every post-move cell is_valid_player_move accepts, plus
\* exactly one extra tile on each upper bound, and nothing below 0.
C17_ValidBoardPos ==
    Returned("is_valid_board_pos") => ClosedRangeTest

\* C17 for the board sizes up to i32::MAX
C17_ValidBoardPosI32 ==
    /\ Returned("is_valid_board_pos")
    /\ FitsI32(call.game.board_size_x) /\ FitsI32(call.game.board_size_y)
    => ClosedRangeTest

\* the extra tile x = Sx is accepted, which is_valid_player_move refuses
C17_Witness ==
    /\ Returned("is_valid_board_pos") /\ Unwrap(result) = TRUE
    /\ FitsI32(call.game.board_size_x) /\ FitsI32(call.game.board_size_y)
    /\ PostMove(call.pos, call.dir)[1] = as_i32(call.game.board_size_x)
    /\ call.dir = "East"
    /\ ~is_valid_player_move([call.game EXCEPT !.player_pos = call.pos], call.dir)

---------------------------------------------------------------------------
(* The sequence tables *)

\* idx is an index of every table of every sequence
InTables(idx) ==
    /\ idx \in 0..(SEQUENCE_LENGTH - 1)
    /\ \A i \in Sequences :
           /\ idx + 1 \in DOMAIN DefaultSeq[i].log_sequence_nth_step
           /\ idx + 1 \in DOMAIN DefaultSeq[i].spawn_offset_x
           /\ idx + 1 \in DOMAIN DefaultSeq[i].spawn_offset_z

\* C18: for every turn counter, 0 and values far above 8 included, the
\* index used to read the sequence tables is the counter mod 8 and lies in
\* [0,8), so a spawn pass reads within the tables, and every sequence's
\* sequence_index stays in [0,8).
C18_SequenceIndexInRange ==
    /\ Returned("seq_idx") => Unwrap(result) = call.step % 8 /\ InTables(Unwrap(result))
    /\ \A i \in Sequences : InTables(sequence_index[i])
    /\ \A k \in DOMAIN spawn_history :
           \A i \in Sequences :
               /\ InTables(spawn_history[k].index_after[i])
               /\ spawn_history[k].index_after[i] \in {spawn_history[k].index_before[i],
                                                       spawn_history[k].step % 8}

\* a spawn pass at the turn counter 2^31 - 1 has set the third sequence's
\* index to 7
C18_Witness ==
    /\ Returned("spawn_logs") /\ call.step = 2147483647
    /\ sequence_index[3] = 7 /\ Len(logs) = 1

---------------------------------------------------------------------------
(* Boxes *)

\* the box of centre c and half-extents |h|, by its own accessors
BoxOf(box, c, h) ==
    /\ box.min = VSub(c, VAbs(h))
    /\ box.max = VAdd(c, VAbs(h))
    /\ center(box) = c
    /\ half_extents(box) = VAbs(h)
    /\ extents(box) = VAdd(VAbs(h), VAbs(h))

\* c - |h| and c + |h| are f32 values: neither is rounded
ExactCorners(c, h) ==
    F32Sub(c, VAbs(h)) = VSub(c, VAbs(h)) /\ F32Add(c, VAbs(h)) = VAdd(c, VAbs(h))

VLe(a, b) == a[1] <= b[1] /\ a[2] <= b[2] /\ a[3] <= b[3]

\* box a contains box b
Contains(a, b) == VLe(a.min, b.min) /\ VLe(b.max, a.max)

\* C20: intersection is symmetric, A.intersects(B) = B.intersects(A) for all
\* boxes A and B, and every box intersects itself and any box it contains.
C20_IntersectsSymmetric ==
    Returned("intersects") =>
        /\ Unwrap(result) = intersects(call.b, call.a)
        /\ call.a = call.b => Unwrap(result)
        /\ Contains(call.a, call.b) => Unwrap(result)

\* the solid box against one of its own corner points, which it contains
C20_Witness ==
    /\ Returned("intersects")
    /\ call.a = [min |-> <<0, 0, 0>>, max |-> <<8, 8, 8>>]
    /\ call.b = [min |-> <<8, 0, 8>>, max |-> <<8, 0, 8>>]
    /\ Contains(call.a, call.b) /\ ~Contains(call.b, call.a)
    /\ Unwrap(result) /\ intersects(call.b, call.a)

\* the closed intervals of a and b on axis i share a point of the lattice
SharesPoint(a, b, i) ==
    \E k \in 0..(MaxCorner + 3) :
        a.min[i] <= 8 * k /\ 8 * k <= a.max[i] /\ b.min[i] <= 8 * k /\ 8 * k <= b.max[i]

\* a positive gap separates a and b on axis i
Gap(a, b, i) == a.max[i] < b.min[i] \/ b.max[i] < a.min[i]

\* a box without volume
IsPoint(a) == a.min = a.max

\* C21: intersects is true iff the closed intervals overlap on all three
\* axes: boxes touching at a face, an edge or a corner intersect, a point box
\* inside or on the boundary of a box intersects it, and boxes with a
\* positive gap on any one axis do not.
C21_IntersectsClosed ==
    Returned("intersects") =>
        /\ Unwrap(result) = (\A i \in 1..3 : SharesPoint(call.a, call.b, i))
        /\ (\E i \in 1..3 : Gap(call.a, call.b, i)) => ~Unwrap(result)
        /\ IsPoint(call.b) /\ Contains(call.a, call.b) => Unwrap(result)

\* two cubes that share one corner point only
C21_Witness ==
    /\ Returned("intersects")
    /\ call.a = [min |-> <<8, 8, 8>>, max |-> <<16, 16, 16>>]
    /\ call.b = [min |-> <<16, 16, 16>>, max |-> <<24, 24, 24>>]
    /\ Unwrap(result)

\* the k-th update_center of the call moved its box to the k-th centre and
\* kept the half-extents given at construction
Recentred(bs, k) ==
    LET c == call.centers[k]
        h == half_extents(bs[k])
    IN  /\ half_extents(bs[k + 1]) = h
        /\ bs[k + 1].min = VSub(c, h) /\ bs[k + 1].max = VAdd(c, h)
        /\ center(bs[k + 1]) = c
        /\ update_center(bs[k + 1], c) = bs[k + 1]
        /\ half_extents(bs[k + 1]) = VAbs(call.half_extents)

\* neither the construction nor any of the first k moves rounded a corner
ExactUpTo(k) ==
    /\ ExactCorners(call.center, call.half_extents)
    /\ \A j \in 1..k : ExactCorners(call.centers[j], call.half_extents)

WellFormed(box) == VLe(box.min, box.max)

\* C23: every box built with LLAabb3d::new and then changed only by
\* update_center has min <= max on each of the three axes, in every state.
C23_MinBelowMax ==
    /\ Returned("LLAabb3d::new") => WellFormed(Unwrap(result))
    /\ Returned("update_center") =>
           \A k \in 1..Len(Unwrap(result)) : WellFormed(Unwrap(result)[k])
    /\ IsSome(player) => WellFormed(Unwrap(player).aabb)
    /\ \A i \in DOMAIN logs : WellFormed(logs[i].aabb)

\* a box of negative half-extents after two moves, one of which rounded a
\* corner
C23_Witness ==
    /\ Returned("update_center") /\ Len(Unwrap(result)) = 3
    /\ call.center = <<-4, 4, -4>> /\ call.half_extents = <<-4, 4, -4>>
    /\ call.centers = <<<<-4, 67108864, -4>>, <<4, -4, 4>>>>
    /\ ~ExactUpTo(1)
    /\ Unwrap(result)[3].min[1] < Unwrap(result)[3].max[1]

---------------------------------------------------------------------------
(* The collision scan *)

\* the pair {i, j} of entities is one a notification is due for
Notifiable(objs, i, j) ==
    /\ intersects(objs[i].aabb, objs[j].aabb)
    /\ objs[i].got # objs[j].got
    /\ objs[i].got = "Player" \/ objs[j].got = "Player"

\* the unordered pairs of distinct entities a notification is due for
NotifiablePairs(objs) ==
    {p \in SUBSET DOMAIN objs :
        \E i \in p, j \in p : i # j /\ p = {i, j} /\ Notifiable(objs, i, j)}

\* C24: a scan emits a notification for an unordered pair of distinct
\* entities iff their boxes intersect, their classifications differ and one of
\* them is the Player: one per such pair, none for any other pair.
C24_ScanNotifies ==
    Returned("collision_detection_system") =>
        Unwrap(result) = Cardinality(NotifiablePairs(call.objs))

\* a Player between two overlapping Logs: two notifications, none for the
\* two Logs
C24_Witness ==
    /\ Returned("collision_detection_system")
    /\ Len(call.objs) = 3
    /\ call.objs[1].got = "Log" /\ call.objs[2].got = "Player" /\ call.objs[3].got = "Log"
    /\ call.objs[1].aabb = call.objs[3].aabb
    /\ call.objs[2].aabb # call.objs[1].aabb
    /\ intersects(call.objs[1].aabb, call.objs[2].aabb)
    /\ Unwrap(result) = 2

\* the player's box meets the box of a hazard
PlayerOverlap ==
    /\ IsSome(player)
    /\ \E i \in DOMAIN logs : intersects(Unwrap(player).aabb, logs[i].aabb)

\* C25: the collision scan runs in every tick of an active session whatever
\* the turn phase: a player-hazard overlap present in PlayerIdle,
\* PlayerActionInProgress, GameTurnInProgress or PlayerFinishingJump gives a
\* collision notification in that tick.  The overlap is there when the tick
\* begins and when it ends; the notification is pending, or has ended the
\* session, when the tick is over.
C25_ScanEveryTick ==
    [][app_state = "InGame" /\ game_state \in TurnPhases /\ PlayerOverlap /\ PlayerOverlap'
           => events_old' > 0 \/ app_state' # "InGame"]_vars

\* the step spawned a hazard
HazardSpawned ==
    /\ spawn_history' # spawn_history
    /\ spawn_history' # <<>>
    /\ spawn_history'[Len(spawn_history')].spawned # <<>>

\* C26: hazards are spawned before they are moved and moved before they are
\* scanned, and a hazard is never scanned in the tick in which it is spawned:
\* the tick a hazard is spawned in is a tick of PlayerIdle, where no scan
\* runs, and every hazard of a game turn was there, and tagged for its
\* movement, when the turn was set up.
C26_SpawnBeforeScan ==
    /\ [][HazardSpawned => game_state' = "PlayerIdle"]_vars
    /\ [](app_state = "InGame" /\ game_state = "GameTurnInProgress"
              => \A i \in DOMAIN logs : IsSome(logs[i].log_roll))

\* a game turn under way on the hazards of two spawn passes
C26_Witness ==
    /\ app_state = "InGame" /\ game_state = "GameTurnInProgress"
    /\ 0 < action_timer /\ action_timer < TimerSteps
    /\ Len(spawn_history) = 2
    /\ spawn_history[2].spawned # <<>>
    /\ Len(logs) > Len(spawn_history[2].spawned)

\* every box is centred at its owner's position
BoxesCentred ==
    /\ IsSome(player) => center(Unwrap(player).aabb) = Unwrap(player).translation
    /\ \A i \in DOMAIN logs : center(logs[i].aabb) = logs[i].translation

\* C27: in every tick in which collision detection runs, each box it tests
\* is centred at its owner's position for that tick, under every order of
\* the systems the schedule allows.  Within a game turn the boxes a tick
\* leaves behind are the ones its scan tested, or newer ones.
C27_ScanUsesCurrentBoxes ==
    [][app_state = "InGame" /\ game_state = "GameTurnInProgress"
           /\ app_state' = "InGame" /\ game_state' = "GameTurnInProgress"
           => BoxesCentred']_vars

---------------------------------------------------------------------------
(* Writers of the pending phase *)

\* the system of the current phase has set NextState<GameState> in this frame:
\* handle_player_input on an accepted action, a process_* system on the
\* frame its timer finishes
PhaseSystemWrites ==
    /\ InSession
    /\ \/ game_state = "PlayerIdle" /\ turns_left' = turns_left - 1
       \/ /\ game_state \in TurnPhases \ {"PlayerIdle"}
          /\ action_timer < TimerSteps
          /\ \/ game_state' \notin {game_state, "Paused"}
             \/ game_state' = "Paused" /\ action_timer' = TimerSteps

\* C28: in no tick do two systems both write the pending turn-phase
\* transition: toggle_pause never writes it in a tick in which
\* handle_player_input, process_player_action, process_game_turn or
\* process_player_finishing_jump writes it, so no request is overwritten.
C28_SingleWriter ==
    [][~(PauseToggleAccepted /\ PhaseSystemWrites)]_vars

---------------------------------------------------------------------------
(* The game turn moves every hazard one roll *)

\* the displacement setup_game_turn_timer gives a hazard over one game turn
RollOffset == Vec3(0, 0, 0 - TILE_SIZE * 2)

\* the step in which the countdown of the game turn finishes
TurnCompletes ==
    /\ app_state = "InGame" /\ game_state = "GameTurnInProgress"
    /\ app_state' = "InGame"
    /\ game_state' \in {"PlayerIdle", "PlayerFinishingJump"}

\* how many hazards of the state were spawned by the pass of this transition
SpawnedNow == IF game_state = "PlayerIdle" /\ spawn_history # <<>>
              THEN Len(spawn_history[Len(spawn_history)].spawned)
              ELSE 0

\* the hazards that were there before the spawn pass of this transition
Survivors == SubSeq(logs, 1, Len(logs) - SpawnedNow)

\* C29: when the game turn completes, every hazard that was there when the
\* turn began and was not despawned is at one of the turn's starting
\* positions displaced by RollOffset (z less two tiles, x and y unchanged),
\* and carries no LogRoll, also when the turn was paused and resumed.
C29_TurnDisplacesOnce ==
    [][TurnCompletes =>
          /\ Len(Survivors') <= Len(turn_start)
          /\ \A i \in DOMAIN Survivors' :
                /\ Survivors'[i].log_roll = None
                /\ \E j \in DOMAIN turn_start :
                      Survivors'[i].translation = VAdd(turn_start[j], RollOffset)]_vars

---------------------------------------------------------------------------
(* The game turn despawns the hazards that leave the board *)

\* a tick of the game turn that leaves the session running
GameTurnTick ==
    /\ app_state = "InGame" /\ game_state = "GameTurnInProgress"
    /\ app_state' = "InGame"

\* the share of the countdown that has elapsed after the tick
Elapsed == IF TurnCompletes THEN TimerSteps ELSE action_timer'

\* where the tick's interpolation puts hazard l
RolledTo(l) == LerpFraction(Unwrap(l.log_roll).start_position,
                            Unwrap(l.log_roll).target_position, Elapsed)

\* the grid position of a hazard at `translation` passes the loose check
OnBoard(translation) == is_valid_board_pos(DefaultGame, AsIVec3(translation), "West")

\* hazard l is off the board in a tick past 90% of the countdown
LeavesBoard(l) == 10 * Elapsed > 9 * TimerSteps /\ ~OnBoard(RolledTo(l))

\* the hazards the tick keeps, and where it leaves each of them
Remaining == SelectSeq(logs, LAMBDA l : ~LeavesBoard(l))
LeftAt(l) == IF TurnCompletes THEN Unwrap(l.log_roll).target_position ELSE RolledTo(l)

\* C30: a tick of the game turn despawns exactly the hazards whose grid
\* position fails is_valid_board_pos once more than 90% of the countdown has
\* elapsed: none before 90%, none whose position passes; and every hazard
\* that survives a completed game turn is at a position that passes.
C30_DespawnOffBoard ==
    [][GameTurnTick =>
          LET kept == Remaining
              left == HazardPositions(Survivors')
          IN  /\ left = [i \in DOMAIN kept |-> LeftAt(kept[i])]
              /\ TurnCompletes => \A i \in DOMAIN left : OnBoard(left[i])]_vars

\* a tick past 90% of the countdown has despawned a hazard and kept another,
\* and the countdown has not finished
C30_Witness ==
    /\ app_state = "InGame" /\ game_state = "GameTurnInProgress"
    /\ 10 * action_timer > 9 * TimerSteps /\ action_timer < TimerSteps
    /\ logs # <<>>
    /\ Len(logs) < Len(turn_start)

---------------------------------------------------------------------------
(* The persisted player position *)

\* a tick of the action phase that leaves the session running
PlayerActionTick ==
    /\ app_state = "InGame" /\ game_state = "PlayerActionInProgress"
    /\ app_state' = "InGame"

\* C31: Game.player_pos is written only for a jump-start: a tick of the
\* action phase of a plain Move leaves it as it was.
C31_PlayerPosOnlyOnJump ==
    [][PlayerActionTick /\ last_action = "Move" /\ ~is_jumping => player_pos' = player_pos]_vars

---------------------------------------------------------------------------
(* The player's action moves it by one unit *)

\* the displacement setup_player_action_timer gives the action
ActionOffset == IF is_jumping THEN Vec3(0, TILE_SIZE, 0) ELSE AsVec3(DirectionValue(is_moving))

\* the step in which the countdown of the player's action finishes
ActionCompletes ==
    /\ app_state = "InGame" /\ game_state = "PlayerActionInProgress"
    /\ app_state' = "InGame" /\ game_state' = "GameTurnInProgress"

\* C32: when the action phase ends, the player is at the position it had
\* when the action was accepted displaced by the direction's unit vector (a
\* Move) or by one unit upwards (a jump-start), however many ticks the phase
\* took and whether or not it was paused and resumed.
C32_ActionDisplacesOnce ==
    [][ActionCompletes /\ player' # None /\ IsSome(action_start) =>
          player'[1].translation = VAdd(Unwrap(action_start), ActionOffset)]_vars

---------------------------------------------------------------------------
(* The landing undoes the jump *)

\* the step in which the countdown of the landing finishes
LandingCompletes ==
    /\ app_state = "InGame" /\ game_state = "PlayerFinishingJump"
    /\ app_state' = "InGame" /\ game_state' = "PlayerIdle"

\* C33: when a jump turn completes, the player is back at the position it
\* had when the jump was accepted and PlayerActionTracker.is_jumping is
\* false, whatever the ticks and the pause toggles of the turn.
C33_JumpReturns ==
    [][LandingCompletes /\ player' # None /\ IsSome(action_start) =>
          /\ player'[1].translation = Unwrap(action_start)
          /\ ~is_jumping']_vars

---------------------------------------------------------------------------
(* Systems without a Player entity *)

\* C34: with no Player entity, a run of a system that looks the player up
\* returns, removes no entry of the bird map, leaves the rescue counter as
\* it was, requests neither EndGame nor WinGame (nor any turn phase), and
\* creates no player.
C34_NoPlayerNoEffect ==
    Returned("player_system") =>
        LET w == PlayerlessWorld(call)
            r == Unwrap(result)
        IN  /\ r.bird_map = w.bird_map
            /\ r.bevy_count = w.bevy_count
            /\ r.next_app_state = w.next_app_state
            /\ r.next_game_state = w.next_game_state
            /\ r.player = None

\* the collision handler has run on a pending notification, collisions not
\* suppressed, with no player
C34_Witness ==
    /\ Returned("player_system")
    /\ call.system = "player_collision_handling_system"
    /\ ~call.skip /\ call.events = <<1, 0>>
    /\ Unwrap(result).events_old = 0
    /\ Unwrap(result).next_app_state = "Unchanged"

---------------------------------------------------------------------------
(* Every turn terminates *)

\* the turn cycle is in one of the phases that follow an accepted action
TurnRunning ==
    /\ app_state = "InGame"
    /\ game_state \in {"PlayerActionInProgress", "GameTurnInProgress", "PlayerFinishingJump"}

\* the turn is over: back in PlayerIdle, or the session has ended
TurnOver == app_state # "InGame" \/ game_state = "PlayerIdle"

---------------------------------------------------------------------------
(* Hazards do not outlive the board *)

\* the game turns a hazard can complete on a board of BoardSizeY rows, two
\* rows a turn: it is despawned in the turn after them
MaxLogTurns == BoardSizeY \div 2

\* C36: no hazard survives more than MaxLogTurns + 1 = 7 game turns after
\* its spawn: every hazard of the session has completed at most 6, and the
\* seventh despawns it.
C36_HazardsLeave ==
    /\ Len(log_age) = Len(logs)
    /\ \A i \in DOMAIN log_age : log_age[i] <= MaxLogTurns

\* a hazard that has completed six game turns is in its seventh
C36_Witness ==
    /\ app_state = "InGame" /\ game_state = "GameTurnInProgress"
    /\ \E i \in DOMAIN log_age :
          /\ log_age[i] = MaxLogTurns
          /\ IsSome(logs[i].log_roll)
          /\ ~OnBoard(Unwrap(logs[i].log_roll).target_position)

---------------------------------------------------------------------------
(* The pause memo *)

\* C37: PrevState holds a phase exactly when the turn phase is Paused, and
\* never holds Paused itself; it is empty in every other state, outside
\* InGame too.
C37_MemoIffPaused ==
    /\ IsSome(prev_state) <=> (app_state = "InGame" /\ game_state = "Paused")
    /\ prev_state # Some("Paused")

---------------------------------------------------------------------------
(* The auxiliary state of a fresh session *)

\* C38: every re-entry of InGame from EndGame or WinGame starts with
\* PlayerActionTracker.is_jumping false and PrevState empty.
C38_FreshTracker ==
    [][Terminal /\ app_state' = "InGame" => ~is_jumping' /\ prev_state' = None]_vars

---------------------------------------------------------------------------
(* LogSequence::check_seq *)

\* C39: check_seq returns a boolean for every step and every table, the
\* tables of the default level with their 0 entries included.
C39_CheckSeqTotal ==
    Returned("check_seq") => IsSome(Unwrap(result)) /\ Unwrap(Unwrap(result)) \in BOOLEAN

---------------------------------------------------------------------------
(* The step loop of game_logic.rs, logs.rs and player.rs *)

\* C40: every StepForward accepted in state None eventually returns
\* Game.state to None.
C40_StepReturnsToNone ==
    (legacy.state = "PlayerAction") ~> (legacy.state = "None")

\* Game.state becomes GameActionComplete only after GameAction was processed
\* for the step and with every log arrived or no log present
C40_CompleteAfterGameAction ==
    [][legacy.state # "GameActionComplete" /\ legacy'.state = "GameActionComplete"
        => legacy'.game_action]_vars

\* once a step was accepted, Game.state is never None again
C40_NoStepReturns == legacy.current_step > 0 => legacy.state # "None"

\* a jump step has gone through GameAction and GameActionComplete, and the
\* player is left in mid-air with the timer of the jump's start
C40_JumpStuck ==
    /\ legacy.state = "Playing"
    /\ legacy.game_action
    /\ legacy.player_action_next = "JumpComplete"
    /\ legacy.player.action = Some("MidAir")
    /\ legacy.player.y = 2 * TILE_SIZE
    /\ legacy.logs # <<>>
    /\ \A k \in DOMAIN legacy.logs : legacy.logs[k].dest = None /\ ~legacy.logs[k].arrived
    /\ \A r \in DOMAIN legacy.events : Unread(legacy, r) = <<>>

====
